---- MODULE Spec2Model ----
(***************************************************************************)
(* Model of the topology engine of leger-labs/schema:                      *)
(*   generators/quadlet_generator.py  QuadletGenerator                     *)
(*       get_enabled_services, _evaluate_condition, topological_sort,      *)
(*       generate_all                                                      *)
(*   validators/topology_validator.py TopologyValidator                    *)
(*       validate and its three passes                                     *)
(*   state/state_tracker.py           StateTracker                         *)
(*       compute_state, compare_states                                     *)
(*                                                                         *)
(* Text is modelled as a sequence of lexemes (atomic pieces of text), so   *)
(* that startswith/endswith/strip/slicing are computed, not assumed.       *)
(* Python values are tagged records, so that Python's == (where True == 1) *)
(* is computed, not assumed.                                               *)
(***************************************************************************)
EXTENDS Integers, Sequences, FiniteSets, TLC

VARIABLES
    services,          \* self.services: service name -> service record
    doc_order,         \* iteration order of the services dict (document order)
    schema_version,    \* topology.get('schema_version'); "" when the key is absent
    secrets,           \* topology.get('secrets'): path of keys -> kind of node
    pc,                \* position of the running operation
    condition,         \* argument of _evaluate_condition
    result,            \* value returned by the operation that ran
    enabled_services,  \* argument of topological_sort
    iter_order,        \* iteration order of the enabled_services set
    graph,             \* topological_sort: graph
    in_degree,         \* topological_sort: in_degree
    queue,             \* topological_sort: queue
    sorted_services,   \* topological_sort: sorted_services
    errors,            \* TopologyValidator.errors
    warnings,          \* TopologyValidator.warnings
    calls,             \* number of validate() calls made on the validator
    old_state,         \* compare_states: old_state
    new_state,         \* compare_states: new_state
    files              \* names of the unit files generate_all has written

\* the topology document, which no operation of the program changes
topology == <<services, doc_order, schema_version, secrets>>

vars == <<services, doc_order, schema_version, secrets, pc, condition, result,
          enabled_services, iter_order, graph, in_degree, queue, sorted_services,
          errors, warnings, calls, old_state, new_state, files>>

-----------------------------------------------------------------------------
(* Bounds of the model *)

\* longest literal text of a condition, in lexemes
MaxLitLen == 3

\* longest requires list of a service
MaxReq == 2

\* most requires entries in a topology, all services together
MaxEdges == 5

\* longest enabled_by list of a service
MaxEnabledBy == 2

\* most segments of an x-secret-ref
MaxSegments == 4

\* most field names one provider lists in x-provider-fields
MaxProviderFields == 2

-----------------------------------------------------------------------------
(* Python values *)

PyNone == [t |-> "none", b |-> FALSE, i |-> 0, s |-> <<>>]
PyBool(x) == [t |-> "bool", b |-> x, i |-> 0, s |-> <<>>]
PyInt(n) == [t |-> "int", b |-> FALSE, i |-> n, s |-> <<>>]
PyStr(txt) == [t |-> "str", b |-> FALSE, i |-> 0, s |-> txt]

\* a list is the sequence of its items, a dict the function from its keys to
\* their values
PyList(items) == [t |-> "list", b |-> FALSE, i |-> 0, s |-> items]
PyDict(mapping) == [t |-> "dict", b |-> FALSE, i |-> 0, s |-> mapping]

\* the number a bool or an int stands for (bool is a subclass of int)
PyNum(x) == IF x.t = "bool" THEN (IF x.b THEN 1 ELSE 0) ELSE x.i

\* Python's ==  on None, bool, int, str, list and dict
RECURSIVE PyEq(_, _)
PyEq(x, y) ==
    IF x.t \in {"bool", "int"} /\ y.t \in {"bool", "int"}
    THEN PyNum(x) = PyNum(y)
    ELSE IF x.t # y.t THEN FALSE
    ELSE IF x.t \in {"list", "dict"}
    THEN /\ DOMAIN x.s = DOMAIN y.s
         /\ \A k \in DOMAIN x.s : PyEq(x.s[k], y.s[k])
    ELSE x = y

-----------------------------------------------------------------------------
(* Text *)

\* the pieces literal texts are made of; "on" stands for any unquoted word
Lexemes == {"true", "false", "'", "1", "on", " "}

RECURSIVE LStrip(_)
LStrip(txt) ==
    IF txt # <<>> /\ Head(txt) = " " THEN LStrip(Tail(txt)) ELSE txt

RECURSIVE RStrip(_)
RStrip(txt) ==
    IF txt # <<>> /\ txt[Len(txt)] = " "
    THEN RStrip(SubSeq(txt, 1, Len(txt) - 1))
    ELSE txt

\* str.strip()
Strip(txt) == RStrip(LStrip(txt))

\* txt.startswith("'") and txt.endswith("'")
IsQuoted(txt) == txt # <<>> /\ Head(txt) = "'" /\ txt[Len(txt)] = "'"

\* txt[1:-1]
Unquote(txt) == SubSeq(txt, 2, Len(txt) - 1)

\* the orders in which the members of S can be listed
Orderings(S) ==
    {p \in [1..Cardinality(S) -> S] : \A s \in S : \E k \in DOMAIN p : p[k] = s}

-----------------------------------------------------------------------------
(* The topology document *)

ServiceNames == {"ui", "db"}
FieldNames == {"web_search"}

\* a FieldDef: field_def.get(key) with its default for an absent key
FieldDef(default) ==
    [default |-> default,
     type |-> "",
     x_default_handling |-> "",
     x_template_path |-> "",
     x_sensitive |-> FALSE,
     x_secret_ref |-> <<>>,
     x_visibility |-> "",
     x_env_var |-> "",
     x_requires_field |-> <<>>,
     x_provider_fields |-> <<>>,
     x_enables_services |-> <<>>,
     x_affects_services |-> <<>>]

NoProperties == [f \in {} |-> FieldDef(PyNone)]

\* the order in which a set of one or no field names is listed
FieldOrder(properties) ==
    IF DOMAIN properties = {} THEN <<>>
    ELSE <<CHOOSE f \in DOMAIN properties : TRUE>>

\* a service: infra.get(key) with its default for an absent key
Service(requires, enabled, enabled_by, properties) ==
    [infrastructure |->
        [requires |-> requires,
         enabled |-> enabled,
         enabled_by |-> enabled_by,
         published_port |-> <<>>,
         container_name |-> "",
         healthcheck |-> TRUE],
     configuration |->
        [properties |-> properties,
         properties_order |-> FieldOrder(properties),
         required |-> <<>>]]

-----------------------------------------------------------------------------
(* QuadletGenerator._evaluate_condition *)

\* the texts \w+ matches, among the names conditions are written with
WordTexts == {"ui", "db", "ghost", "web_search", "nofield", "a", "b", "c", "engine"}

\* A condition string  <service>.<section>.<field><op><raw> , kept as its pieces.
\* re.match(r'^(\w+)\.configuration\.(\w+)\s*(==|!=)\s*(.+)$', condition)
RegexMatches(c) ==
    /\ c.service \in WordTexts
    /\ c.section = "configuration"
    /\ c.field \in WordTexts
    /\ c.op \in {"==", "!="}
    /\ c.raw # <<>>

\* group 4 of the match: \s* is greedy but leaves (.+) at least one character
Group4(raw) == IF LStrip(raw) = <<>> THEN <<" ">> ELSE LStrip(raw)

\* lines 97-103: the literal's text to a Python value
ParseExpected(txt) ==
    IF txt = <<"true">> THEN PyBool(TRUE)
    ELSE IF txt = <<"false">> THEN PyBool(FALSE)
    ELSE IF IsQuoted(txt) THEN PyStr(Unquote(txt))
    ELSE PyStr(txt)

\* mutant: a missing service or field read as a field without default
EvaluateMissingAsNone(c) ==
    IF ~RegexMatches(c) THEN FALSE
    ELSE LET known == /\ c.service \in DOMAIN services
                      /\ c.field \in DOMAIN services[c.service].configuration.properties
             actual_value == IF known
                             THEN services[c.service].configuration.properties[c.field].default
                             ELSE PyNone
             expected_value == ParseExpected(Strip(Group4(c.raw)))
         IN  IF c.op = "==" THEN PyEq(actual_value, expected_value)
             ELSE ~PyEq(actual_value, expected_value)

_evaluate_condition(c) ==
    IF ~RegexMatches(c) THEN FALSE
    ELSE IF c.service \notin DOMAIN services THEN FALSE
    ELSE LET properties == services[c.service].configuration.properties IN
         IF c.field \notin DOMAIN properties THEN FALSE
         ELSE LET actual_value == properties[c.field].default
                  expected_value == ParseExpected(Strip(Group4(c.raw)))
              IN  IF c.op = "==" THEN PyEq(actual_value, expected_value)
                  ELSE ~PyEq(actual_value, expected_value)

\* the literal texts of at most MaxLitLen lexemes
LiteralTexts == UNION {[1..n -> Lexemes] : n \in 0..MaxLitLen}

Conditions ==
    [service : {"ui", "ghost", ""},
     section : {"configuration", "config"},
     field : {"web_search", "nofield"},
     op : {"==", "!=", "="},
     raw : LiteralTexts]

Defaults ==
    {PyNone, PyBool(TRUE), PyBool(FALSE), PyInt(0), PyInt(1), PyInt(11),
     PyStr(<<"1">>), PyStr(<<"on">>), PyStr(<<"true">>), PyStr(<<>>)}

NoCondition == [service |-> "", section |-> "", field |-> "", op |-> "", raw |-> <<>>]

\* a topology without a secrets region
NoSecrets == (<<>> :> "dict")

\* the variables an operation does not use
IdleSort ==
    /\ enabled_services = {}
    /\ iter_order = <<>>
    /\ graph = <<>>
    /\ in_degree = <<>>
    /\ queue = <<>>
    /\ sorted_services = <<>>

IdleValidator == errors = <<>> /\ warnings = <<>> /\ calls = 0

\* no snapshot taken and no unit file written
IdleTracker == old_state = <<>> /\ new_state = <<>>
IdleGenerator == files = {}

InitCond ==
    /\ \E d \in Defaults :
        services = [n \in ServiceNames |->
                      IF n = "ui"
                      THEN Service(<<>>, FALSE, <<>>, [f \in FieldNames |-> FieldDef(d)])
                      ELSE Service(<<>>, FALSE, <<>>, NoProperties)]
    /\ doc_order = <<"ui", "db">>
    /\ schema_version = ""
    /\ secrets = NoSecrets
    /\ condition \in Conditions
    /\ pc = "evaluate"
    /\ result = FALSE
    /\ IdleSort
    /\ IdleValidator
    /\ IdleTracker
    /\ IdleGenerator

EvaluateCondition ==
    /\ pc = "evaluate"
    /\ result' = _evaluate_condition(condition)
    /\ pc' = "evaluated"
    /\ UNCHANGED <<topology, condition, enabled_services, iter_order,
                   graph, in_degree, queue, sorted_services,
                   errors, warnings, calls, old_state, new_state, files>>

SpecCond == InitCond /\ [][EvaluateCondition]_vars

-----------------------------------------------------------------------------
(* Claims about _evaluate_condition, checked under SpecCond *)

\* The grammar of the specification:
\*   <service>.configuration.<field> (==|!=) <literal>
\* with <literal> one of true, false, a single-quoted string, a bare integer.
IsBareInteger(txt) == txt # <<>> /\ \A k \in DOMAIN txt : txt[k] \in {"0", "1"}

IsQuotedString(txt) ==
    /\ Len(txt) >= 2
    /\ IsQuoted(txt)
    /\ \A k \in 2..(Len(txt) - 1) : txt[k] # "'"

GrammarLiteral(txt) ==
    \/ txt \in {<<"true">>, <<"false">>}
    \/ IsQuotedString(txt)
    \/ IsBareInteger(txt)

WellFormedHead(c) ==
    /\ c.service \in WordTexts
    /\ c.section = "configuration"
    /\ c.field \in WordTexts
    /\ c.op \in {"==", "!="}

WellFormed(c) == WellFormedHead(c) /\ GrammarLiteral(Strip(c.raw))

RECURSIVE DecimalValue(_)
DecimalValue(txt) ==
    IF txt = <<>> THEN 0
    ELSE 10 * DecimalValue(SubSeq(txt, 1, Len(txt) - 1))
         + (IF txt[Len(txt)] = "1" THEN 1 ELSE 0)

\* the value a literal of the grammar denotes
LiteralValue(txt) ==
    IF txt = <<"true">> THEN PyBool(TRUE)
    ELSE IF txt = <<"false">> THEN PyBool(FALSE)
    ELSE IF IsBareInteger(txt) THEN PyInt(DecimalValue(txt))
    ELSE PyStr(Unquote(txt))

FieldExists(c) ==
    /\ c.service \in DOMAIN services
    /\ c.field \in DOMAIN services[c.service].configuration.properties

DefaultOf(c) == services[c.service].configuration.properties[c.field].default

\* C6: equality is type-exact: a well-formed  ==  on an existing field is true
\* only if the default has the literal's type and value, and  !=  is the
\* negation of  == .
C6_EqualityTypeExact ==
    (pc = "evaluated" /\ WellFormed(condition) /\ FieldExists(condition)) =>
        /\ (condition.op = "==" /\ result) =>
              DefaultOf(condition) = LiteralValue(Strip(condition.raw))
        /\ condition.op = "!=" =>
              result = ~_evaluate_condition([condition EXCEPT !.op = "=="])

\* C7: a bare integer literal N is read as the integer N:  f == N  is true and
\* f != N  is false when the default of the existing field f is the integer N.
C7_BareIntegerIsInteger ==
    (/\ pc = "evaluated"
     /\ WellFormedHead(condition)
     /\ FieldExists(condition)
     /\ IsBareInteger(Strip(condition.raw))
     /\ DefaultOf(condition) = PyInt(DecimalValue(Strip(condition.raw))))
        => result = (condition.op = "==")

\* C8: a condition naming a service that is not in the topology, or a field
\* that is not in that service's properties, evaluates to false under  ==  and
\* under  != .
C8_MissingReferenceIsFalse ==
    (pc = "evaluated" /\ ~FieldExists(condition)) => result = FALSE

\* a well-formed  !=  condition on a field the existing service lacks was
\* evaluated
C8_Witness ==
    /\ pc = "evaluated"
    /\ WellFormed(condition)
    /\ condition.service \in DOMAIN services
    /\ condition.field \notin DOMAIN services[condition.service].configuration.properties
    /\ condition.op = "!="
    /\ result = FALSE

\* C9: every condition that is malformed with respect to the grammar evaluates
\* to false.
C9_MalformedIsFalse ==
    (pc = "evaluated" /\ ~WellFormed(condition)) => result = FALSE

-----------------------------------------------------------------------------
(* QuadletGenerator.get_enabled_services *)

Cond(service, field, op, raw) ==
    [service |-> service, section |-> "configuration", field |-> field,
     op |-> op, raw |-> raw]

\* the conditions the enabled_by lists are drawn from
EnableConditions ==
    {Cond("ui", "web_search", "==", <<" ", "true">>),
     Cond("ui", "web_search", "!=", <<" ", "'", "on", "'">>),
     Cond("ghost", "web_search", "==", <<" ", "true">>)}

EnabledByLists == UNION {[1..n -> EnableConditions] : n \in 0..MaxEnabledBy}

\* mutant: the conditions of enabled_by joined by AND
RECURSIVE AllConditionsTrue(_)
AllConditionsTrue(enabled_by) ==
    IF enabled_by = <<>> THEN FALSE
    ELSE /\ _evaluate_condition(Head(enabled_by))
         /\ (Tail(enabled_by) = <<>> \/ AllConditionsTrue(Tail(enabled_by)))

\* lines 51-55: the loop over enabled_by, left at the first true condition
RECURSIVE AnyConditionTrue(_)
AnyConditionTrue(enabled_by) ==
    IF enabled_by = <<>> THEN FALSE
    ELSE IF _evaluate_condition(Head(enabled_by)) THEN TRUE
    ELSE AnyConditionTrue(Tail(enabled_by))

\* lines 42-55: the loop over self.services.items()
RECURSIVE EnabledLoop(_, _)
EnabledLoop(order, enabled) ==
    IF order = <<>> THEN enabled
    ELSE LET service_name == Head(order)
             infra == services[service_name].infrastructure
         IN  IF infra.enabled
             THEN EnabledLoop(Tail(order), enabled \cup {service_name})
             ELSE IF AnyConditionTrue(infra.enabled_by)
             THEN EnabledLoop(Tail(order), enabled \cup {service_name})
             ELSE EnabledLoop(Tail(order), enabled)

get_enabled_services == EnabledLoop(doc_order, {})

InitEnabled ==
    /\ \E d \in {PyBool(TRUE), PyBool(FALSE), PyStr(<<"on">>), PyNone},
          en \in [ServiceNames -> BOOLEAN],
          by \in [ServiceNames -> EnabledByLists],
          req \in {<<>>, <<"db">>},
          enables \in {<<>>, <<"db">>} :
        services = [n \in ServiceNames |->
                      IF n = "ui"
                      THEN Service(req, en[n], by[n],
                                   [f \in FieldNames |->
                                      [FieldDef(d) EXCEPT !.x_enables_services = enables]])
                      ELSE Service(<<>>, en[n], by[n], NoProperties)]
    /\ doc_order \in Orderings(ServiceNames)
    /\ schema_version = ""
    /\ secrets = NoSecrets
    /\ condition = NoCondition
    /\ pc = "enable"
    /\ result = FALSE
    /\ IdleSort
    /\ IdleValidator
    /\ IdleTracker
    /\ IdleGenerator

GetEnabledServices ==
    /\ pc = "enable"
    /\ result' = get_enabled_services
    /\ pc' = "enabled"
    /\ UNCHANGED <<topology, condition, enabled_services, iter_order,
                   graph, in_degree, queue, sorted_services,
                   errors, warnings, calls, old_state, new_state, files>>

SpecEnabled == InitEnabled /\ [][GetEnabledServices]_vars

\* C5: get_enabled_services returns exactly the services whose
\* infrastructure.enabled is true or one of whose enabled_by expressions
\* evaluates to true; requires and x-enables-services change nothing.
C5_EnabledSetExact ==
    pc = "enabled" =>
        result = {s \in DOMAIN services :
                    \/ services[s].infrastructure.enabled
                    \/ \E k \in DOMAIN services[s].infrastructure.enabled_by :
                          _evaluate_condition(services[s].infrastructure.enabled_by[k])}

\* ui is enabled by the second of two conditions only; db, which ui requires
\* and a field of ui lists in x-enables-services, has a false condition and
\* stays disabled
C5_Witness ==
    /\ pc = "enabled"
    /\ result = {"ui"}
    /\ ~services["ui"].infrastructure.enabled
    /\ Len(services["ui"].infrastructure.enabled_by) = 2
    /\ ~_evaluate_condition(services["ui"].infrastructure.enabled_by[1])
    /\ services["ui"].infrastructure.requires = <<"db">>
    /\ services["ui"].configuration.properties["web_search"].x_enables_services = <<"db">>
    /\ services["db"].infrastructure.enabled_by # <<>>

-----------------------------------------------------------------------------
(* QuadletGenerator.topological_sort *)

GraphNames == {"a", "b", "c"}

\* position of a name in ascending lexicographic order
LexRank == ("a" :> 1) @@ ("b" :> 2) @@ ("c" :> 3)

RequiresLists == UNION {[1..n -> GraphNames] : n \in 0..MaxReq}

\* mutant: the test  dep in enabled_services  left out
RECURSIVE ServiceEdgesUnfiltered(_, _)
ServiceEdgesUnfiltered(service_name, requires) ==
    IF requires = <<>> THEN <<>>
    ELSE <<(<<Head(requires), service_name>>)>>
         \o ServiceEdgesUnfiltered(service_name, Tail(requires))

\* lines 138-141 for one service_name: the (dep, service_name) pairs added
RECURSIVE ServiceEdges(_, _)
ServiceEdges(service_name, requires) ==
    IF requires = <<>> THEN <<>>
    ELSE LET rest == ServiceEdges(service_name, Tail(requires)) IN
         IF Head(requires) \in enabled_services
         THEN <<(<<Head(requires), service_name>>)>> \o rest
         ELSE rest

\* lines 134-141: the pairs added, in the order the outer loop visits the set
RECURSIVE AllEdges(_)
AllEdges(order) ==
    IF order = <<>> THEN <<>>
    ELSE ServiceEdges(Head(order), services[Head(order)].infrastructure.requires)
         \o AllEdges(Tail(order))

\* mutant: the edge stored from dependent to dependency
RECURSIVE AddEdgesReversed(_, _, _)
AddEdgesReversed(edges, g, deg) ==
    IF edges = <<>> THEN [graph |-> g, in_degree |-> deg]
    ELSE LET dep == Head(edges)[1]
             service_name == Head(edges)[2]
         IN  AddEdgesReversed(Tail(edges),
                              [g EXCEPT ![service_name] = Append(@, dep)],
                              [deg EXCEPT ![dep] = @ + 1])

\* graph[dep].append(service_name); in_degree[service_name] += 1
RECURSIVE AddEdges(_, _, _)
AddEdges(edges, g, deg) ==
    IF edges = <<>> THEN [graph |-> g, in_degree |-> deg]
    ELSE LET dep == Head(edges)[1]
             service_name == Head(edges)[2]
         IN  AddEdges(Tail(edges),
                      [g EXCEPT ![dep] = Append(@, service_name)],
                      [deg EXCEPT ![service_name] = @ + 1])

\* lines 151-154: the loop over graph[service]
RECURSIVE Relax(_, _, _)
Relax(dependents, deg, q) ==
    IF dependents = <<>> THEN [in_degree |-> deg, queue |-> q]
    ELSE LET dependent == Head(dependents)
             deg2 == [deg EXCEPT ![dependent] = @ - 1]
         IN  Relax(Tail(dependents), deg2,
                   IF deg2[dependent] = 0 THEN Append(q, dependent) ELSE q)

\* line 144: the services the queue starts with, in the set's iteration order
InitialQueue(order, deg) == SelectSeq(order, LAMBDA s : deg[s] = 0)

\* mutant: the length test left out
CycleDetectedNever == FALSE

\* line 157
CycleDetected == Len(sorted_services) # Cardinality(enabled_services)

InitSort ==
    /\ \E req \in [GraphNames -> RequiresLists] :
        /\ Len(req["a"]) + Len(req["b"]) + Len(req["c"]) <= MaxEdges
        /\ services = [n \in GraphNames |-> Service(req[n], TRUE, <<>>, NoProperties)]
    /\ doc_order = <<"a", "b", "c">>
    /\ schema_version = ""
    /\ secrets = NoSecrets
    /\ enabled_services \in SUBSET GraphNames
    /\ iter_order \in Orderings(enabled_services)
    /\ pc = "build"
    /\ graph = <<>>
    /\ in_degree = <<>>
    /\ queue = <<>>
    /\ sorted_services = <<>>
    /\ condition = NoCondition
    /\ result = FALSE
    /\ IdleValidator
    /\ IdleTracker
    /\ IdleGenerator

\* lines 130-145
BuildGraph ==
    /\ pc = "build"
    /\ LET built == AddEdges(AllEdges(iter_order),
                             [s \in DOMAIN services |-> <<>>],
                             [s \in DOMAIN services |-> 0])
       IN  /\ graph' = built.graph
           /\ in_degree' = built.in_degree
           /\ queue' = InitialQueue(iter_order, built.in_degree)
    /\ sorted_services' = <<>>
    /\ pc' = "loop"
    /\ UNCHANGED <<topology, condition, result, enabled_services,
                   iter_order,
                   errors, warnings, calls, old_state, new_state, files>>

\* lines 147-154: one iteration of the while loop
KahnStep ==
    /\ pc = "loop"
    /\ queue # <<>>
    /\ LET service == Head(queue)
           relaxed == Relax(graph[service], in_degree, Tail(queue))
       IN  /\ sorted_services' = Append(sorted_services, service)
           /\ in_degree' = relaxed.in_degree
           /\ queue' = relaxed.queue
    /\ UNCHANGED <<topology, pc, condition, result, enabled_services,
                   iter_order, graph,
                   errors, warnings, calls, old_state, new_state, files>>

\* lines 156-160
FinishSort ==
    /\ pc = "loop"
    /\ queue = <<>>
    /\ IF CycleDetected
       THEN pc' = "raised" /\ result' = "Circular dependency detected"
       ELSE pc' = "returned" /\ result' = sorted_services
    /\ UNCHANGED <<topology, condition, enabled_services, iter_order,
                   graph, in_degree, queue, sorted_services,
                   errors, warnings, calls, old_state, new_state, files>>

NextSort == BuildGraph \/ KahnStep \/ FinishSort

SpecSort == InitSort /\ [][NextSort]_vars

-----------------------------------------------------------------------------
(* Claims about topological_sort, checked under SpecSort *)

Range(seq) == {seq[k] : k \in DOMAIN seq}

\* the members of S that service s requires
RequiresWithin(S, s) == Range(services[s].infrastructure.requires) \cap S

\* the members of S reachable from the set `from` along requires edges inside S
RECURSIVE ReachableWithin(_, _)
ReachableWithin(S, from) ==
    LET more == from \cup UNION {RequiresWithin(S, s) : s \in from} IN
    IF more = from THEN from ELSE ReachableWithin(S, more)

\* the requires graph restricted to S contains a cycle
HasCycleWithin(S) ==
    \E s \in S : s \in ReachableWithin(S, RequiresWithin(S, s))

SortFinished == pc \in {"returned", "raised"}

\* C1: when the requires graph restricted to S is acyclic, topological_sort(S)
\* returns a list in which every dependency in S of every s in S stands at an
\* earlier position than s.
C1_DependenciesFirst ==
    (SortFinished /\ ~HasCycleWithin(enabled_services)) =>
        /\ pc = "returned"
        /\ \A s \in enabled_services : \A d \in RequiresWithin(enabled_services, s) :
              \E i, j \in DOMAIN result :
                  i < j /\ result[i] = d /\ result[j] = s

\* a chain of three services was sorted although the set's iteration order
\* offered the last dependent first
C1_Witness ==
    /\ pc = "returned"
    /\ enabled_services = GraphNames
    /\ \E s \in GraphNames :
          /\ iter_order[1] = s
          /\ \E d \in RequiresWithin(GraphNames, s) :
                RequiresWithin(GraphNames, d) # {}

\* C2: at every step of the Kahn loop the service emitted next is the
\* lexicographically smallest of the services of S that are not yet emitted and
\* whose remaining indegree is zero.
C2_SmallestReadyIsNext ==
    (pc = "loop" /\ queue # <<>>) =>
        \A s \in enabled_services \ Range(sorted_services) :
            in_degree[s] = 0 => LexRank[Head(queue)] <= LexRank[s]

\* C3: topological_sort(S) raises the circular-dependency error if and only if
\* the requires graph restricted to S contains a cycle (a self-requirement is a
\* cycle, a repeated name in one requires list is not).
C3_RaisesIffCycle ==
    SortFinished => (pc = "raised" <=> HasCycleWithin(enabled_services))

\* the error was raised for a self-requirement while another enabled service
\* lists one dependency twice
C3_Witness ==
    /\ pc = "raised"
    /\ \E s \in enabled_services :
          /\ services[s].infrastructure.requires = <<s>>
          /\ \E u, d \in enabled_services \ {s} :
                u # d /\ services[u].infrastructure.requires = <<d, d>>

\* C4: requirements outside S add no edge and no indegree: when the graph
\* restricted to S is acyclic the result is a permutation of exactly S.
C4_PermutationOfEnabled ==
    (SortFinished /\ ~HasCycleWithin(enabled_services)) =>
        /\ pc = "returned"
        /\ Len(result) = Cardinality(enabled_services)
        /\ Range(result) = enabled_services

\* the sort returned two services, one of which requires a service outside S
C4_Witness ==
    /\ pc = "returned"
    /\ Cardinality(enabled_services) = 2
    /\ \E s \in enabled_services :
          Range(services[s].infrastructure.requires) \ enabled_services # {}

-----------------------------------------------------------------------------
(* TopologyValidator: diagnostics *)

\* one appended message: its wording (kind), the service and field it names,
\* and the further names it lists
Diag(kind, service_name, field_name, detail) ==
    [kind |-> kind, service |-> service_name, field |-> field_name,
     detail |-> detail]

\* self.errors.append / self.warnings.append; d is the pair of lists
AddError(d, e) == [d EXCEPT !.errors = Append(@, e)]
AddWarning(d, w) == [d EXCEPT !.warnings = Append(@, w)]

PropertiesOf(service_name) == services[service_name].configuration.properties

\* for service_name, service in self.services.items():
\*     for field_name, field_def in properties.items():
RECURSIVE FieldsOf(_, _)
FieldsOf(service_name, order) ==
    IF order = <<>> THEN <<>>
    ELSE <<(<<service_name, Head(order)>>)>> \o FieldsOf(service_name, Tail(order))

RECURSIVE AllFields(_)
AllFields(order) ==
    IF order = <<>> THEN <<>>
    ELSE FieldsOf(Head(order), services[Head(order)].configuration.properties_order)
         \o AllFields(Tail(order))

-----------------------------------------------------------------------------
(* TopologyValidator: field level *)

_validate_field(d, service_name, field_name, field_def) ==
    LET d1 == IF field_def.x_sensitive /\ field_def.x_secret_ref = <<>>
              THEN AddWarning(d, Diag("Sensitive field lacks x-secret-ref",
                                      service_name, field_name, <<>>))
              ELSE d
        visibility == IF field_def.x_visibility = "" THEN "exposed"
                      ELSE field_def.x_visibility
    IN  IF visibility \in {"exposed", "advanced"} /\ field_def.x_env_var = ""
        THEN AddWarning(d1, Diag("Exposed field lacks x-env-var definition",
                                 service_name, field_name, <<>>))
        ELSE d1

RECURSIVE FieldLevelLoop(_, _)
FieldLevelLoop(fields, d) ==
    IF fields = <<>> THEN d
    ELSE LET service_name == Head(fields)[1]
             field_name == Head(fields)[2]
         IN  FieldLevelLoop(Tail(fields),
                 _validate_field(d, service_name, field_name,
                                 PropertiesOf(service_name)[field_name]))

validate_field_level(d) == FieldLevelLoop(AllFields(doc_order), d)

-----------------------------------------------------------------------------
(* TopologyValidator: service level *)

\* mutant: the loop over requires left at the first missing service
RECURSIVE DependenciesUntilMissing(_, _, _)
DependenciesUntilMissing(d, service_name, requires) ==
    IF requires = <<>> THEN d
    ELSE IF Head(requires) \notin DOMAIN services
    THEN AddError(d, Diag("Requires non-existent service",
                          service_name, "", <<Head(requires)>>))
    ELSE DependenciesUntilMissing(d, service_name, Tail(requires))

RECURSIVE _validate_service_dependencies(_, _, _)
_validate_service_dependencies(d, service_name, requires) ==
    IF requires = <<>> THEN d
    ELSE LET dep == Head(requires)
             d1 == IF dep \notin DOMAIN services
                   THEN AddError(d, Diag("Requires non-existent service",
                                         service_name, "", <<dep>>))
                   ELSE d
         IN  _validate_service_dependencies(d1, service_name, Tail(requires))

\* mutant: the missing healthcheck reported as an error
HealthcheckAsError(d, service_name) ==
    LET infra == services[service_name].infrastructure
        enabled == infra.enabled \/ Len(infra.enabled_by) > 0
    IN  IF enabled /\ ~infra.healthcheck
        THEN AddError(d, Diag("Enabled service lacks healthcheck",
                              service_name, "", <<>>))
        ELSE d

_validate_service_healthcheck(d, service_name) ==
    LET infra == services[service_name].infrastructure
        enabled == infra.enabled \/ Len(infra.enabled_by) > 0
    IN  IF enabled /\ ~infra.healthcheck
        THEN AddWarning(d, Diag("Enabled service lacks healthcheck",
                                service_name, "", <<>>))
        ELSE d

RECURSIVE ServiceLevelLoop(_, _)
ServiceLevelLoop(order, d) ==
    IF order = <<>> THEN d
    ELSE LET service_name == Head(order)
             d1 == _validate_service_dependencies(
                       d, service_name, services[service_name].infrastructure.requires)
         IN  ServiceLevelLoop(Tail(order),
                              _validate_service_healthcheck(d1, service_name))

\* the keys of a defaultdict(list) in insertion order: each value once, at
\* its first occurrence
RECURSIVE FirstOccurrences(_, _)
FirstOccurrences(seq, seen) ==
    IF seq = <<>> THEN <<>>
    ELSE IF Head(seq) \in seen THEN FirstOccurrences(Tail(seq), seen)
    ELSE <<Head(seq)>> \o FirstOccurrences(Tail(seq), seen \cup {Head(seq)})

\* mutant: port_map[published] keeps the first two services only
PublishedByFirstTwo(published) ==
    LET all == SelectSeq(doc_order,
                   LAMBDA n : services[n].infrastructure.published_port = <<published>>)
    IN  IF Len(all) > 2 THEN SubSeq(all, 1, 2) ELSE all

\* port_map[published]: the services publishing the port, in iteration order
PublishedBy(published) ==
    SelectSeq(doc_order,
              LAMBDA n : services[n].infrastructure.published_port = <<published>>)

\* lines 110-113: the ports in the order port_map receives them
RECURSIVE PublishedPorts(_)
PublishedPorts(order) ==
    IF order = <<>> THEN <<>>
    ELSE services[Head(order)].infrastructure.published_port
         \o PublishedPorts(Tail(order))

RECURSIVE PortConflicts(_, _)
PortConflicts(ports, d) ==
    IF ports = <<>> THEN d
    ELSE LET port == Head(ports)
             d1 == IF Len(PublishedBy(port)) > 1
                   THEN AddError(d, Diag("Port conflict", "", "",
                                         <<ToString(port)>> \o PublishedBy(port)))
                   ELSE d
         IN  PortConflicts(Tail(ports), d1)

_validate_service_ports(d) ==
    PortConflicts(FirstOccurrences(PublishedPorts(doc_order), {}), d)

\* name_map[container_name]
NamedBy(container_name) ==
    SelectSeq(doc_order,
              LAMBDA n : services[n].infrastructure.container_name = container_name)

\* lines 126-129: the truthy container names in the order name_map receives them
RECURSIVE ContainerNames(_)
ContainerNames(order) ==
    IF order = <<>> THEN <<>>
    ELSE (IF services[Head(order)].infrastructure.container_name # ""
          THEN <<services[Head(order)].infrastructure.container_name>>
          ELSE <<>>)
         \o ContainerNames(Tail(order))

RECURSIVE NameConflicts(_, _)
NameConflicts(names, d) ==
    IF names = <<>> THEN d
    ELSE LET container_name == Head(names)
             d1 == IF Len(NamedBy(container_name)) > 1
                   THEN AddError(d, Diag("Container name conflict", "", "",
                                         <<container_name>> \o NamedBy(container_name)))
                   ELSE d
         IN  NameConflicts(Tail(names), d1)

_validate_container_names(d) ==
    NameConflicts(FirstOccurrences(ContainerNames(doc_order), {}), d)

validate_service_level(d) ==
    _validate_container_names(_validate_service_ports(ServiceLevelLoop(doc_order, d)))

-----------------------------------------------------------------------------
(* TopologyValidator: topology level *)

\* has_cycle with its shared sets: st holds visited, rec_stack, the pair of
\* diagnostic lists d, and the value returned
RECURSIVE has_cycle(_, _, _)
RECURSIVE RequiresLoop(_, _, _, _)

\* lines 179-186: the loop over requires, left by return True
RequiresLoop(service_name, path, requires, st) ==
    IF requires = <<>> THEN [st EXCEPT !.returned = FALSE]
    ELSE LET dep == Head(requires) IN
         IF dep \notin st.visited
         THEN LET below == has_cycle(dep, Append(path, service_name), st) IN
              IF below.returned THEN below
              ELSE RequiresLoop(service_name, path, Tail(requires), below)
         ELSE IF dep \in st.rec_stack
         THEN [st EXCEPT
                 !.d = AddError(@, Diag("Circular dependency detected", "", "",
                                        path \o <<service_name, dep>>)),
                 !.returned = TRUE]
         ELSE RequiresLoop(service_name, path, Tail(requires), st)

\* lines 166-189
has_cycle(service_name, path, st) ==
    LET entered == [st EXCEPT !.visited = @ \cup {service_name},
                              !.rec_stack = @ \cup {service_name}]
    IN  IF service_name \notin DOMAIN services
        THEN [entered EXCEPT !.returned = FALSE]
        ELSE LET looped == RequiresLoop(service_name, path,
                               services[service_name].infrastructure.requires,
                               entered)
             IN  IF looped.returned THEN looped
                 ELSE [looped EXCEPT !.rec_stack = @ \ {service_name}]

\* mutant: the search started from the first service only
CycleRootsFirstOnly(order, st) ==
    IF order = <<>> THEN st ELSE has_cycle(Head(order), <<>>, st)

\* lines 191-193
RECURSIVE CycleRoots(_, _)
CycleRoots(order, st) ==
    IF order = <<>> THEN st
    ELSE IF Head(order) \notin st.visited
    THEN CycleRoots(Tail(order), has_cycle(Head(order), <<>>, st))
    ELSE CycleRoots(Tail(order), st)

_validate_no_circular_dependencies(d) ==
    CycleRoots(doc_order,
               [visited |-> {}, rec_stack |-> {}, d |-> d, returned |-> FALSE]).d

\* the text of an expression, as the names a message lists
ExpressionText(c) == <<c.service, ".", c.section, ".", c.field, c.op>> \o c.raw

_validate_expression(d, service_name, expression) ==
    IF ~RegexMatches(expression)
    THEN AddError(d, Diag("Invalid expression format", service_name, "",
                          ExpressionText(expression)))
    ELSE IF expression.service \notin DOMAIN services
    THEN AddError(d, Diag("Expression references non-existent service",
                          service_name, "", <<expression.service>>))
    ELSE IF expression.field \notin DOMAIN PropertiesOf(expression.service)
    THEN AddError(d, Diag("Expression references non-existent field",
                          service_name, "",
                          <<expression.service, expression.field>>))
    ELSE d

RECURSIVE ExpressionsOf(_, _, _)
ExpressionsOf(d, service_name, enabled_by) ==
    IF enabled_by = <<>> THEN d
    ELSE ExpressionsOf(_validate_expression(d, service_name, Head(enabled_by)),
                       service_name, Tail(enabled_by))

RECURSIVE EnablementExpressionsLoop(_, _)
EnablementExpressionsLoop(order, d) ==
    IF order = <<>> THEN d
    ELSE EnablementExpressionsLoop(
             Tail(order),
             ExpressionsOf(d, Head(order),
                           services[Head(order)].infrastructure.enabled_by))

_validate_enablement_expressions(d) == EnablementExpressionsLoop(doc_order, d)

\* bool(value) of a default
PyTruthy(v) ==
    CASE v.t = "none" -> FALSE
      [] v.t = "bool" -> v.b
      [] v.t = "int" -> v.i # 0
      [] v.t = "str" -> v.s # <<>>

ScalarKind(truthy) == IF truthy THEN "truthy" ELSE "falsy"

\* What the service's document holds at a path of keys: a non-empty dict
\* ("dict"), an empty dict ("empty_dict"), a value that is no dict and is
\* truthy or falsy ("truthy", "falsy"), or no such key ("missing").
DocKind(service_name, path) ==
    LET infra == services[service_name].infrastructure
        properties == PropertiesOf(service_name)
    IN  CASE path = <<>> -> "dict"
          [] path = <<"infrastructure">> -> "dict"
          [] path \in {<<"infrastructure", "image">>, <<"infrastructure", "port">>} ->
                "truthy"
          [] path = <<"infrastructure", "container_name">> ->
                IF infra.container_name # "" THEN "truthy" ELSE "missing"
          [] path = <<"infrastructure", "published_port">> ->
                IF infra.published_port = <<>> THEN "missing"
                ELSE ScalarKind(infra.published_port[1] # 0)
          [] path = <<"infrastructure", "requires">> ->
                IF infra.requires # <<>> THEN "truthy" ELSE "missing"
          [] path = <<"infrastructure", "enabled_by">> ->
                IF infra.enabled_by # <<>> THEN "truthy" ELSE "missing"
          [] path = <<"infrastructure", "enabled">> ->
                IF infra.enabled THEN "truthy" ELSE "missing"
          [] path = <<"infrastructure", "healthcheck">> ->
                IF infra.healthcheck THEN "dict" ELSE "missing"
          [] path = <<"configuration">> -> "dict"
          [] path = <<"configuration", "type">> -> "truthy"
          [] path = <<"configuration", "properties">> ->
                IF DOMAIN properties = {} THEN "empty_dict" ELSE "dict"
          [] Len(path) = 3 /\ SubSeq(path, 1, 2) = <<"configuration", "properties">> ->
                IF path[3] \in DOMAIN properties THEN "dict" ELSE "missing"
          [] /\ Len(path) = 4
             /\ SubSeq(path, 1, 2) = <<"configuration", "properties">>
             /\ path[3] \in DOMAIN properties
             /\ path[4] = "default" ->
                IF properties[path[3]].default = PyNone THEN "missing"
                ELSE ScalarKind(PyTruthy(properties[path[3]].default))
          [] OTHER -> "missing"

\* lines 276-278:  obj = obj.get(seg, {})  along the segments.  at is the path
\* of obj in the document; default says obj is the {} of a missing key.
RECURSIVE Navigate(_, _, _, _)
Navigate(service_name, at, default, segments) ==
    IF segments = <<>>
    THEN [raised |-> FALSE,
          falsy |-> default \/ DocKind(service_name, at) \in {"empty_dict", "falsy"}]
    ELSE IF default THEN Navigate(service_name, at, TRUE, Tail(segments))
    ELSE IF DocKind(service_name, at) \in {"truthy", "falsy"}
    THEN [raised |-> TRUE, falsy |-> FALSE]
    ELSE IF DocKind(service_name, Append(at, Head(segments))) = "missing"
    THEN Navigate(service_name, at, TRUE, Tail(segments))
    ELSE Navigate(service_name, Append(at, Head(segments)), FALSE, Tail(segments))

\* reference is the list reference.split('.')
_validate_field_reference(d, service_name, field_name, reference) ==
    IF Len(reference) < 2
    THEN AddError(d, Diag("Invalid reference format", service_name, field_name,
                          reference))
    ELSE IF reference[1] \notin DOMAIN services
    THEN AddError(d, Diag("References non-existent service", service_name,
                          field_name, <<reference[1]>>))
    ELSE LET reached == Navigate(reference[1], <<>>, FALSE, Tail(reference)) IN
         IF reached.raised
         THEN AddWarning(d, Diag("Could not fully validate reference",
                                 service_name, field_name, reference))
         ELSE IF reached.falsy /\ reference[2] \in {"infrastructure", "configuration"}
         THEN AddWarning(d, Diag("Reference may not exist at runtime",
                                 service_name, field_name, reference))
         ELSE d

RECURSIVE FieldReferencesLoop(_, _)
FieldReferencesLoop(fields, d) ==
    IF fields = <<>> THEN d
    ELSE LET service_name == Head(fields)[1]
             field_name == Head(fields)[2]
             requires == PropertiesOf(service_name)[field_name].x_requires_field
         IN  FieldReferencesLoop(Tail(fields),
                 IF requires # <<>>
                 THEN _validate_field_reference(d, service_name, field_name, requires)
                 ELSE d)

_validate_field_references(d) == FieldReferencesLoop(AllFields(doc_order), d)

\* mutant: only the first segment looked up
SecretResolvesFirst(obj, segments) ==
    segments = <<>> \/ Append(obj, Head(segments)) \in DOMAIN secrets

\* lines 320-327: whether every segment is a key of the mapping reached so far
RECURSIVE SecretResolves(_, _)
SecretResolves(obj, segments) ==
    IF segments = <<>> THEN TRUE
    ELSE IF secrets[obj] # "dict" \/ Append(obj, Head(segments)) \notin DOMAIN secrets
    THEN FALSE
    ELSE SecretResolves(Append(obj, Head(segments)), Tail(segments))

\* reference is the list reference.split('.')
_validate_secret_reference(d, service_name, field_name, reference) ==
    IF reference[1] # "secrets"
    THEN AddError(d, Diag("Secret reference must start with 'secrets.'",
                          service_name, field_name, <<>>))
    ELSE IF ~SecretResolves(<<>>, Tail(reference))
    THEN AddError(d, Diag("Secret does not exist", service_name, field_name,
                          reference))
    ELSE d

RECURSIVE SecretReferencesLoop(_, _)
SecretReferencesLoop(fields, d) ==
    IF fields = <<>> THEN d
    ELSE LET service_name == Head(fields)[1]
             field_name == Head(fields)[2]
             secret_ref == PropertiesOf(service_name)[field_name].x_secret_ref
         IN  SecretReferencesLoop(Tail(fields),
                 IF secret_ref # <<>>
                 THEN _validate_secret_reference(d, service_name, field_name, secret_ref)
                 ELSE d)

_validate_secret_references(d) == SecretReferencesLoop(AllFields(doc_order), d)

\* mutant: the required field looked up in the properties of every service
RECURSIVE RequiredFieldsAnyService(_, _, _, _, _)
RequiredFieldsAnyService(d, service_name, field_name, provider, fields) ==
    IF fields = <<>> THEN d
    ELSE LET required_field == Head(fields)
             d1 == IF \A n \in DOMAIN services : required_field \notin DOMAIN PropertiesOf(n)
                   THEN AddError(d, Diag("Provider requires non-existent field",
                                         service_name, field_name,
                                         <<provider, required_field>>))
                   ELSE d
         IN  RequiredFieldsAnyService(d1, service_name, field_name, provider, Tail(fields))

\* lines 340-344: the loop over the fields one provider lists
RECURSIVE RequiredFieldsLoop(_, _, _, _, _)
RequiredFieldsLoop(d, service_name, field_name, provider, fields) ==
    IF fields = <<>> THEN d
    ELSE LET required_field == Head(fields)
             d1 == IF required_field \notin DOMAIN PropertiesOf(service_name)
                   THEN AddError(d, Diag("Provider requires non-existent field",
                                         service_name, field_name,
                                         <<provider, required_field>>))
                   ELSE d
         IN  RequiredFieldsLoop(d1, service_name, field_name, provider, Tail(fields))

\* line 339: provider_fields is the list of (provider, fields) items
RECURSIVE ProvidersLoop(_, _, _, _)
ProvidersLoop(d, service_name, field_name, provider_fields) ==
    IF provider_fields = <<>> THEN d
    ELSE ProvidersLoop(
             RequiredFieldsLoop(d, service_name, field_name,
                                Head(provider_fields)[1], Head(provider_fields)[2]),
             service_name, field_name, Tail(provider_fields))

RECURSIVE ProviderConsistencyLoop(_, _)
ProviderConsistencyLoop(fields, d) ==
    IF fields = <<>> THEN d
    ELSE LET service_name == Head(fields)[1]
             field_name == Head(fields)[2]
         IN  ProviderConsistencyLoop(Tail(fields),
                 ProvidersLoop(d, service_name, field_name,
                     PropertiesOf(service_name)[field_name].x_provider_fields))

_validate_provider_consistency(d) == ProviderConsistencyLoop(AllFields(doc_order), d)

\* lines 354-359
RECURSIVE EnablesLoop(_, _, _, _)
EnablesLoop(d, service_name, field_name, enables) ==
    IF enables = <<>> THEN d
    ELSE LET enabled_service == Head(enables)
             d1 == IF enabled_service \notin DOMAIN services
                   THEN AddError(d, Diag("Enables non-existent service",
                                         service_name, field_name, <<enabled_service>>))
                   ELSE d
         IN  EnablesLoop(d1, service_name, field_name, Tail(enables))

\* lines 362-368: affects is the list of (provider, affected_service) items,
\* "" standing for null
RECURSIVE AffectsLoop(_, _, _, _)
AffectsLoop(d, service_name, field_name, affects) ==
    IF affects = <<>> THEN d
    ELSE LET affected_service == Head(affects)[2]
             d1 == IF affected_service # "" /\ affected_service \notin DOMAIN services
                   THEN AddError(d, Diag("Affects non-existent service",
                                         service_name, field_name, <<affected_service>>))
                   ELSE d
         IN  AffectsLoop(d1, service_name, field_name, Tail(affects))

RECURSIVE EnablementReferencesLoop(_, _)
EnablementReferencesLoop(fields, d) ==
    IF fields = <<>> THEN d
    ELSE LET service_name == Head(fields)[1]
             field_name == Head(fields)[2]
             field_def == PropertiesOf(service_name)[field_name]
         IN  EnablementReferencesLoop(Tail(fields),
                 AffectsLoop(EnablesLoop(d, service_name, field_name,
                                         field_def.x_enables_services),
                             service_name, field_name, field_def.x_affects_services))

_validate_service_enablement_references(d) ==
    EnablementReferencesLoop(AllFields(doc_order), d)

validate_topology_level(d) ==
    _validate_service_enablement_references(
        _validate_provider_consistency(
            _validate_secret_references(
                _validate_field_references(
                    _validate_enablement_expressions(
                        _validate_no_circular_dependencies(d))))))

-----------------------------------------------------------------------------
(* TopologyValidator.validate *)

\* mutant: the passes run without the two lists being emptied first
RunPassesAccumulating ==
    validate_topology_level(
        validate_service_level(
            validate_field_level([errors |-> errors, warnings |-> warnings])))

\* lines 44-49: both lists emptied, then the three passes
RunPasses ==
    validate_topology_level(
        validate_service_level(
            validate_field_level([errors |-> <<>>, warnings |-> <<>>])))

\* line 51
NoErrors(d) == Len(d.errors) = 0

Validate ==
    /\ pc = "validate"
    /\ LET d == RunPasses IN
           /\ errors' = d.errors
           /\ warnings' = d.warnings
           /\ result' = NoErrors(d)
    /\ pc' = "validated"
    /\ calls' = calls + 1
    /\ UNCHANGED <<topology, condition, enabled_services, iter_order,
                   graph, in_degree, queue, sorted_services,
                   old_state, new_state, files>>

\* the number of validate() calls on one validator
MaxCalls == 3

\* validate() called again on the validator that has already validated
ValidateAgain ==
    /\ pc = "validated"
    /\ calls < MaxCalls
    /\ LET d == RunPasses IN
           /\ errors' = d.errors
           /\ warnings' = d.warnings
           /\ result' = NoErrors(d)
    /\ pc' = "validated"
    /\ calls' = calls + 1
    /\ UNCHANGED <<topology, condition, enabled_services, iter_order,
                   graph, in_degree, queue, sorted_services,
                   old_state, new_state, files>>

\* the secrets region of the validated topologies: secrets.api.key
ValidatorSecrets ==
    (<<>> :> "dict") @@ (<<"api">> :> "dict") @@ (<<"api", "key">> :> "leaf")

\* x-sensitive and x-secret-ref of the field
SecretRefs ==
    {[sensitive |-> TRUE, secret_ref |-> <<>>],
     [sensitive |-> TRUE, secret_ref |-> <<"secrets", "api", "key">>],
     [sensitive |-> FALSE, secret_ref |-> <<>>],
     [sensitive |-> FALSE, secret_ref |-> <<"secrets", "api", "nope">>],
     [sensitive |-> FALSE, secret_ref |-> <<"vault", "api", "key">>]}

RequiresFieldRefs ==
    {<<>>, <<"db", "infrastructure", "container_name">>,
     <<"db", "infrastructure", "hostname">>, <<"ghost", "infrastructure", "port">>}

ProviderFields ==
    {<<>>, << <<"x", <<"web_search">>>> >>,
     << <<"x", <<"web_search">>>>, <<"y", <<"y_url">>>> >>}

\* x-enables-services and x-affects-services of the field
ServiceRefs ==
    {[enables |-> <<>>, affects |-> << <<"x", "db">>, <<"y", "">> >>],
     [enables |-> <<"ghost">>, affects |-> <<>>],
     [enables |-> <<"db">>, affects |-> << <<"x", "ghost">> >>]}

\* x-visibility and x-env-var of the field
Exposures ==
    {[visibility |-> "", env_var |-> ""],
     [visibility |-> "", env_var |-> "WEB_SEARCH"],
     [visibility |-> "advanced", env_var |-> ""],
     [visibility |-> "hidden", env_var |-> ""]}

ValidatedEnabledBy ==
    {<<>>,
     <<Cond("ui", "web_search", "==", <<" ", "true">>)>>,
     <<Cond("ui", "nofield", "==", <<" ", "true">>)>>,
     <<Cond("ui", "web_search", "=", <<" ", "true">>)>>}

\* enabled and healthcheck of ui
Healths ==
    {[enabled |-> TRUE, healthcheck |-> TRUE],
     [enabled |-> TRUE, healthcheck |-> FALSE],
     [enabled |-> FALSE, healthcheck |-> FALSE]}

\* published_port and container_name of ui; db publishes 8080 as "db-app"
Placements ==
    {[published_port |-> <<>>, container_name |-> "ui-app"],
     [published_port |-> <<8080>>, container_name |-> "ui-app"],
     [published_port |-> <<8081>>, container_name |-> "db-app"]}

InitValidate ==
    /\ \E secret \in SecretRefs, exposure \in Exposures,
          requires_field \in RequiresFieldRefs, provider_fields \in ProviderFields,
          refs \in ServiceRefs,
          req_ui \in {<<>>, <<"db">>, <<"ghost">>}, req_db \in {<<>>, <<"ui">>},
          health \in Healths,
          enabled_by \in ValidatedEnabledBy, placement \in Placements :
        LET field_def ==
                [FieldDef(PyBool(TRUE)) EXCEPT
                    !.x_sensitive = secret.sensitive,
                    !.x_secret_ref = secret.secret_ref,
                    !.x_visibility = exposure.visibility,
                    !.x_env_var = exposure.env_var,
                    !.x_requires_field = requires_field,
                    !.x_provider_fields = provider_fields,
                    !.x_enables_services = refs.enables,
                    !.x_affects_services = refs.affects]
            ui == Service(req_ui, health.enabled, enabled_by,
                          [f \in FieldNames |-> field_def])
            db == Service(req_db, TRUE, <<>>, NoProperties)
        IN  services = [n \in ServiceNames |->
                IF n = "ui"
                THEN [ui EXCEPT
                        !.infrastructure.published_port = placement.published_port,
                        !.infrastructure.container_name = placement.container_name,
                        !.infrastructure.healthcheck = health.healthcheck]
                ELSE [db EXCEPT
                        !.infrastructure.published_port = <<8080>>,
                        !.infrastructure.container_name = "db-app"]]
    /\ doc_order = <<"ui", "db">>
    /\ schema_version = ""
    /\ secrets = ValidatorSecrets
    /\ condition = NoCondition
    /\ pc = "validate"
    /\ result = FALSE
    /\ IdleSort
    /\ IdleValidator
    /\ IdleTracker
    /\ IdleGenerator

SpecValidate == InitValidate /\ [][Validate]_vars

-----------------------------------------------------------------------------
(* Claims about validate, checked under SpecValidate *)

KindsOf(diagnostics) == {diagnostics[k].kind : k \in DOMAIN diagnostics}

\* the messages of the four warning conditions
WarningKinds ==
    {"Sensitive field lacks x-secret-ref",
     "Exposed field lacks x-env-var definition",
     "Enabled service lacks healthcheck",
     "Reference may not exist at runtime",
     "Could not fully validate reference"}

Warned(kind, service_name, field_name) ==
    \E k \in DOMAIN warnings :
        /\ warnings[k].kind = kind
        /\ warnings[k].service = service_name
        /\ warnings[k].field = field_name

\* the warning conditions of the claim, read off the topology
SensitiveWithoutSecretRef(s, f) ==
    PropertiesOf(s)[f].x_sensitive /\ PropertiesOf(s)[f].x_secret_ref = <<>>

ExposedWithoutEnvVar(s, f) ==
    /\ PropertiesOf(s)[f].x_visibility \in {"", "exposed", "advanced"}
    /\ PropertiesOf(s)[f].x_env_var = ""

EnabledWithoutHealthcheck(s) ==
    /\ services[s].infrastructure.enabled
          \/ services[s].infrastructure.enabled_by # <<>>
    /\ ~services[s].infrastructure.healthcheck

\* an x-requires-field into an existing service's infrastructure whose last
\* key the service does not have
UnresolvedTerminal(s, f) ==
    LET reference == PropertiesOf(s)[f].x_requires_field IN
    /\ Len(reference) = 3
    /\ reference[1] \in DOMAIN services
    /\ reference[2] = "infrastructure"
    /\ DocKind(reference[1], Tail(reference)) = "missing"

\* C10: validate() returns true if and only if the error list is empty after
\* the three passes; each warning condition appends its warning, warnings hold
\* nothing else, and no warning message is ever in the error list.
C10_ValidIffNoErrors ==
    pc = "validated" =>
        /\ result = (errors = <<>>)
        /\ KindsOf(errors) \cap WarningKinds = {}
        /\ KindsOf(warnings) \subseteq WarningKinds
        /\ \A s \in DOMAIN services :
              /\ EnabledWithoutHealthcheck(s) <=>
                     Warned("Enabled service lacks healthcheck", s, "")
              /\ \A f \in DOMAIN PropertiesOf(s) :
                    /\ SensitiveWithoutSecretRef(s, f) <=>
                           Warned("Sensitive field lacks x-secret-ref", s, f)
                    /\ ExposedWithoutEnvVar(s, f) <=>
                           Warned("Exposed field lacks x-env-var definition", s, f)
                    /\ UnresolvedTerminal(s, f) =>
                           Warned("Reference may not exist at runtime", s, f)

\* a topology with all four warning conditions (a conditionally enabled
\* service without healthcheck among them) and no error was found valid
C10_Witness ==
    /\ pc = "validated"
    /\ result = TRUE
    /\ ~services["ui"].infrastructure.enabled
    /\ EnabledWithoutHealthcheck("ui")
    /\ SensitiveWithoutSecretRef("ui", "web_search")
    /\ ExposedWithoutEnvVar("ui", "web_search")
    /\ PropertiesOf("ui")["web_search"].x_visibility = ""
    /\ UnresolvedTerminal("ui", "web_search")
    /\ Len(warnings) = 4

-----------------------------------------------------------------------------
(* validate on three services that differ in published_port and container_name *)

\* infra.get('published_port'): absent, 0 and 8080
PortValues == {<<>>, <<0>>, <<8080>>}

\* infra.get('container_name'): "" stands for an absent or empty name
NameValues == {"", "x-app", "y-app"}

InitPlacement ==
    /\ \E port \in [GraphNames -> PortValues], name \in [GraphNames -> NameValues] :
        services = [n \in GraphNames |->
            [Service(<<>>, TRUE, <<>>, NoProperties) EXCEPT
                !.infrastructure.published_port = port[n],
                !.infrastructure.container_name = name[n]]]
    /\ doc_order \in Orderings(GraphNames)
    /\ schema_version = ""
    /\ secrets = NoSecrets
    /\ condition = NoCondition
    /\ pc = "validate"
    /\ result = FALSE
    /\ IdleSort
    /\ IdleValidator
    /\ IdleTracker
    /\ IdleGenerator

SpecPlacement == InitPlacement /\ [][Validate]_vars

\* the services whose published_port is the value port
Publishing(port) ==
    {n \in DOMAIN services : services[n].infrastructure.published_port = <<port>>}

\* the services whose container_name is the value name
Named(name) ==
    {n \in DOMAIN services : services[n].infrastructure.container_name = name}

\* the positions in the error list of the errors of one kind about one value
ErrorsAbout(kind, value) ==
    {k \in DOMAIN errors : errors[k].kind = kind /\ Head(errors[k].detail) = value}

\* the error list holds, of this kind and about this value, no error when
\* fewer than two services share the value, and otherwise exactly one error,
\* which lists each of the sharing services once
OneErrorListing(kind, value, sharing) ==
    IF Cardinality(sharing) < 2 THEN ErrorsAbout(kind, value) = {}
    ELSE /\ Cardinality(ErrorsAbout(kind, value)) = 1
         /\ \A k \in ErrorsAbout(kind, value) :
               /\ Range(Tail(errors[k].detail)) = sharing
               /\ Len(Tail(errors[k].detail)) = Cardinality(sharing)

\* C11: every non-null published_port value (and every container_name value)
\* shared by two or more services gets exactly one error, which lists every
\* service sharing it; a value of a single service and a null published_port
\* get no error.
C11_OneErrorPerSharedValue ==
    pc = "validated" =>
        /\ \A p \in PortValues \ {<<>>} :
              OneErrorListing("Port conflict", ToString(p[1]), Publishing(p[1]))
        /\ \A name \in NameValues \ {""} :
              OneErrorListing("Container name conflict", name, Named(name))
        /\ Len(SelectSeq(errors, LAMBDA e : e.kind = "Port conflict"))
              = Cardinality({p \in PortValues \ {<<>>} :
                                Cardinality(Publishing(p[1])) > 1})
        /\ Len(SelectSeq(errors, LAMBDA e : e.kind = "Container name conflict"))
              = Cardinality({name \in NameValues \ {""} :
                                Cardinality(Named(name)) > 1})

\* three services publish port 0, two of them share a container name and the
\* third has a name of its own: one error of each kind
C11_Witness ==
    /\ pc = "validated"
    /\ Publishing(0) = GraphNames
    /\ \E name \in NameValues \ {""} : Cardinality(Named(name)) = 2
    /\ \E name \in NameValues \ {""} : Cardinality(Named(name)) = 1
    /\ Len(errors) = 2
    /\ ~result

-----------------------------------------------------------------------------
(* validate on three services that differ in requires and enabled *)

\* the names a requires list is written with; ghost is no service
RequiredNames == GraphNames \cup {"ghost"}

ValidatedRequires == UNION {[1..n -> RequiredNames] : n \in 0..MaxReq}

InitRequires ==
    /\ \E req \in [GraphNames -> ValidatedRequires], enabled \in BOOLEAN :
        /\ Len(req["a"]) + Len(req["b"]) + Len(req["c"]) <= MaxEdges
        /\ services = [n \in GraphNames |-> Service(req[n], enabled, <<>>, NoProperties)]
    \* every requires assignment is drawn, so the other document orders are
    \* these two with the services renamed
    /\ doc_order \in {<<"a", "b", "c">>, <<"c", "a", "b">>}
    /\ schema_version = ""
    /\ secrets = NoSecrets
    /\ condition = NoCondition
    /\ pc = "validate"
    /\ result = FALSE
    /\ IdleSort
    /\ IdleValidator
    /\ IdleTracker
    /\ IdleGenerator

SpecRequires == InitRequires /\ [][Validate]_vars

\* the errors of one kind, in the order they were appended
ErrorsOfKind(kind) == SelectSeq(errors, LAMBDA e : e.kind = kind)

\* C12: whenever the requires graph over all services contains a cycle, of any
\* length and whether or not the services are enabled, validate() appends at
\* least one circular-dependency error and returns false.
C12_CycleIsReported ==
    (pc = "validated" /\ HasCycleWithin(DOMAIN services)) =>
        /\ ErrorsOfKind("Circular dependency detected") # <<>>
        /\ result = FALSE

\* a cycle through three services that are not enabled was reported
C12_Witness ==
    /\ pc = "validated"
    /\ \A s \in DOMAIN services :
          /\ ~services[s].infrastructure.enabled
          /\ Len(services[s].infrastructure.requires) = 1
          /\ ReachableWithin(DOMAIN services, {s}) = DOMAIN services
    /\ ErrorsOfKind("Circular dependency detected") # <<>>
    /\ result = FALSE

\* the list of names is a closed walk in the requires graph
ClosedWalk(path) ==
    /\ Len(path) >= 2
    /\ \A k \in 1..(Len(path) - 1) :
          /\ path[k] \in DOMAIN services
          /\ path[k + 1] \in Range(services[path[k]].infrastructure.requires)
    /\ path[Len(path)] = path[1]

\* C13: the path listed in every circular-dependency error is a closed walk in
\* the requires graph: each consecutive pair (x, y) has y in requires(x), and
\* the last element equals the first.
C13_PathIsClosedWalk ==
    pc = "validated" =>
        \A k \in DOMAIN errors :
            errors[k].kind = "Circular dependency detected" =>
                ClosedWalk(errors[k].detail)

\* the number of entries of requires(s) that are the name dep
Entries(s, dep) ==
    Len(SelectSeq(services[s].infrastructure.requires, LAMBDA r : r = dep))

\* the number of errors that say s requires the non-existent service dep
DanglingErrors(s, dep) ==
    Len(SelectSeq(errors, LAMBDA e : /\ e.kind = "Requires non-existent service"
                                      /\ e.service = s
                                      /\ e.detail = <<dep>>))

\* C14: for every service s and every entry d of requires(s) that is no key of
\* the services map one error naming s and d is appended and validate() returns
\* false; entries that exist add no such error.
C14_DanglingRequires ==
    pc = "validated" =>
        /\ \A s \in DOMAIN services : \A dep \in RequiredNames :
              DanglingErrors(s, dep) =
                  IF dep \in DOMAIN services THEN 0 ELSE Entries(s, dep)
        /\ Len(ErrorsOfKind("Requires non-existent service")) =
              Entries("a", "ghost") + Entries("b", "ghost") + Entries("c", "ghost")
        /\ (\E s \in DOMAIN services : Entries(s, "ghost") > 0) => result = FALSE

\* one service lists the missing name twice and got two errors, another one
\* lists an existing service and a missing one
C14_Witness ==
    /\ pc = "validated"
    /\ \E s, u \in DOMAIN services :
          /\ s # u
          /\ services[s].infrastructure.requires = <<"ghost", "ghost">>
          /\ DanglingErrors(s, "ghost") = 2
          /\ Entries(u, "ghost") = 1
          /\ Range(services[u].infrastructure.requires) \cap DOMAIN services # {}
    /\ result = FALSE

-----------------------------------------------------------------------------
(* validate on services that differ in their enabled_by expressions *)

InitExpressions ==
    \* enabled_by of db: nothing, or an expression that resolves followed by
    \* one that names no service
    /\ \E expression \in Conditions,
          other \in {<<>>,
                     <<Cond("ui", "web_search", "==", <<" ", "true">>),
                       Cond("ghost", "web_search", "!=", <<" ", "'", "on", "'">>)>>} :
        services = [n \in ServiceNames |->
            IF n = "ui"
            THEN Service(<<>>, FALSE, <<expression>>,
                         [f \in FieldNames |-> FieldDef(PyBool(TRUE))])
            ELSE Service(<<>>, FALSE, other, NoProperties)]
    /\ doc_order \in Orderings(ServiceNames)
    /\ schema_version = ""
    /\ secrets = NoSecrets
    /\ condition = NoCondition
    /\ pc = "validate"
    /\ result = FALSE
    /\ IdleSort
    /\ IdleValidator
    /\ IdleTracker
    /\ IdleGenerator

SpecExpressions == InitExpressions /\ [][Validate]_vars

\* the messages of _validate_expression
ExpressionErrorKinds ==
    {"Invalid expression format",
     "Expression references non-existent service",
     "Expression references non-existent field"}

\* the number of errors about the expressions of service s
ExpressionErrors(s) ==
    Len(SelectSeq(errors, LAMBDA e : e.kind \in ExpressionErrorKinds /\ e.service = s))

\* the expression parses under the grammar and names an existing service and
\* an existing field of it
Resolves(c) == WellFormed(c) /\ FieldExists(c)

\* C15: every enabled_by entry gets an error unless it parses under the
\* condition grammar (literal true, false, a single-quoted string or a bare
\* integer) and names an existing service and an existing field of that
\* service; an entry that does all of this gets none.
C15_ExpressionErrors ==
    pc = "validated" =>
        \A s \in DOMAIN services :
            LET enabled_by == services[s].infrastructure.enabled_by IN
            ExpressionErrors(s) =
                Cardinality({k \in DOMAIN enabled_by : ~Resolves(enabled_by[k])})

-----------------------------------------------------------------------------
(* validate on fields that differ in x-secret-ref *)

\* the secrets regions: none, secrets.api.key, and secrets.api a plain value
SecretsRegions ==
    {NoSecrets, ValidatorSecrets, (<<>> :> "dict") @@ (<<"api">> :> "leaf")}

\* reference.split('.') of the references of at most MaxSegments segments;
\* <<>> stands for a field without x-secret-ref
SecretReferences ==
    UNION {[1..n -> {"secrets", "api", "key", "nope"}] : n \in 0..MaxSegments}

InitSecretRefs ==
    /\ \E reference \in SecretReferences,
          other \in {<<>>, <<"secrets", "api", "key">>, <<"vault", "key">>} :
        services = [n \in ServiceNames |->
            Service(<<>>, FALSE, <<>>,
                    [f \in FieldNames |->
                        [FieldDef(PyNone) EXCEPT
                            !.x_secret_ref = IF n = "ui" THEN reference ELSE other]])]
    /\ doc_order \in Orderings(ServiceNames)
    /\ schema_version = ""
    /\ secrets \in SecretsRegions
    /\ condition = NoCondition
    /\ pc = "validate"
    /\ result = FALSE
    /\ IdleSort
    /\ IdleValidator
    /\ IdleTracker
    /\ IdleGenerator

SpecSecretRefs == InitSecretRefs /\ [][Validate]_vars

\* the number of errors of these kinds about field f of service s
FieldErrors(kinds, s, f) ==
    Len(SelectSeq(errors, LAMBDA e : e.kind \in kinds /\ e.service = s /\ e.field = f))

SecretErrorKinds ==
    {"Secret reference must start with 'secrets.'", "Secret does not exist"}

\* every segment after the first is a key of the mapping the segments before
\* it lead to inside the secrets region
ResolvesInSecrets(reference) ==
    \A k \in 2..Len(reference) :
        /\ SubSeq(reference, 2, k - 1) \in DOMAIN secrets
        /\ secrets[SubSeq(reference, 2, k - 1)] = "dict"
        /\ SubSeq(reference, 2, k) \in DOMAIN secrets

\* C16: a field with a non-empty x-secret-ref gets exactly one error when the
\* reference does not start with the segment secrets or when a later segment
\* is no key of the mapping reached so far inside the secrets region, and no
\* error when every segment resolves.
C16_SecretReferenceErrors ==
    pc = "validated" =>
        \A s \in DOMAIN services : \A f \in DOMAIN PropertiesOf(s) :
            LET reference == PropertiesOf(s)[f].x_secret_ref IN
            FieldErrors(SecretErrorKinds, s, f) =
                IF reference = <<>> THEN 0
                ELSE IF reference[1] = "secrets" /\ ResolvesInSecrets(reference)
                THEN 0
                ELSE 1

\* the reference of ui goes through secrets.api.key, which is no mapping, and
\* got the one error of the run; the reference of db resolves
C16_Witness ==
    /\ pc = "validated"
    /\ secrets = ValidatorSecrets
    /\ Len(PropertiesOf("ui")["web_search"].x_secret_ref) = 4
    /\ SubSeq(PropertiesOf("ui")["web_search"].x_secret_ref, 1, 3)
          = <<"secrets", "api", "key">>
    /\ PropertiesOf("db")["web_search"].x_secret_ref = <<"secrets", "api", "key">>
    /\ Len(errors) = 1
    /\ errors[1].kind = "Secret does not exist"
    /\ errors[1].service = "ui"

-----------------------------------------------------------------------------
(* validate on fields that differ in x-provider-fields *)

\* the field names one provider lists
ProviderFieldNames == {"engine", "y_url", "x_key"}
ProviderFieldLists == UNION {[1..n -> ProviderFieldNames] : n \in 0..MaxProviderFields}

\* x-provider-fields as the list of its (provider, fields) items: no provider,
\* x or y alone, and both in either order
ProviderItems ==
    {<<>>}
    \cup {<<(<<p, l>>)>> : p \in {"x", "y"}, l \in ProviderFieldLists}
    \cup {<<(<<p[1], l1>>), (<<p[2], l2>>)>> :
             p \in {<<"x", "y">>, <<"y", "x">>},
             l1 \in ProviderFieldLists, l2 \in ProviderFieldLists}

\* the properties of ui in document order: engine alone or with y_url
ProviderPropertyOrders == {<<"engine">>, <<"engine", "y_url">>, <<"y_url", "engine">>}

InitProviders ==
    /\ \E provider_fields \in ProviderItems, order \in ProviderPropertyOrders,
          other \in {<<>>, <<"y_url">>} :
        services = [n \in ServiceNames |->
            IF n = "ui"
            THEN [Service(<<>>, FALSE, <<>>,
                          [f \in Range(order) |->
                              IF f = "engine"
                              THEN [FieldDef(PyStr(<<"on">>)) EXCEPT
                                       !.x_provider_fields = provider_fields]
                              ELSE FieldDef(PyNone)])
                  EXCEPT !.configuration.properties_order = order]
            ELSE [Service(<<>>, FALSE, <<>>, [f \in Range(other) |-> FieldDef(PyNone)])
                  EXCEPT !.configuration.properties_order = other]]
    /\ doc_order \in Orderings(ServiceNames)
    /\ schema_version = ""
    /\ secrets = NoSecrets
    /\ condition = NoCondition
    /\ pc = "validate"
    /\ result = FALSE
    /\ IdleSort
    /\ IdleValidator
    /\ IdleTracker
    /\ IdleGenerator

SpecProviders == InitProviders /\ [][Validate]_vars

\* the number of times the provider's list in x-provider-fields of field f of
\* service s names required_field
Listings(s, f, provider, required_field) ==
    LET provider_fields == PropertiesOf(s)[f].x_provider_fields
        listed == {i \in DOMAIN provider_fields : provider_fields[i][1] = provider}
    IN  IF listed = {} THEN 0
        ELSE LET i == CHOOSE i \in listed : TRUE IN
             Len(SelectSeq(provider_fields[i][2], LAMBDA r : r = required_field))

\* the number of errors naming field f of s, the provider and required_field
ProviderErrors(s, f, provider, required_field) ==
    Len(SelectSeq(errors,
                  LAMBDA e : /\ e.kind = "Provider requires non-existent field"
                             /\ e.service = s
                             /\ e.field = f
                             /\ e.detail = <<provider, required_field>>))

\* C17: for every field carrying x-provider-fields and every (provider,
\* fieldName) listed in it, exactly one error naming the field, the provider
\* and fieldName is appended when fieldName is no property of the same service
\* (a property of that name in another service does not count), and none when
\* it is.
C17_ProviderFieldErrors ==
    pc = "validated" =>
        /\ \A s \in DOMAIN services : \A f \in DOMAIN PropertiesOf(s) :
              \A provider \in {"x", "y"}, required_field \in ProviderFieldNames :
                  ProviderErrors(s, f, provider, required_field) =
                      IF required_field \in DOMAIN PropertiesOf(s) THEN 0
                      ELSE Listings(s, f, provider, required_field)
        /\ \A k \in DOMAIN errors :
              errors[k].kind = "Provider requires non-existent field" =>
                  /\ errors[k].service \in DOMAIN services
                  /\ errors[k].field \in DOMAIN PropertiesOf(errors[k].service)
                  /\ Len(errors[k].detail) = 2
                  /\ Listings(errors[k].service, errors[k].field,
                              errors[k].detail[1], errors[k].detail[2]) > 0

\* engine of ui lists itself for provider x and y_url for provider y; y_url is
\* a property of db only, and the one error names engine, y and y_url
C17_Witness ==
    /\ pc = "validated"
    /\ DOMAIN PropertiesOf("ui") = {"engine"}
    /\ DOMAIN PropertiesOf("db") = {"y_url"}
    /\ Listings("ui", "engine", "x", "engine") = 1
    /\ Listings("ui", "engine", "y", "y_url") = 1
    /\ Len(errors) = 1
    /\ errors[1] = Diag("Provider requires non-existent field", "ui", "engine",
                        <<"y", "y_url">>)
    /\ result = FALSE

-----------------------------------------------------------------------------
(* validate on topologies with several faults at once *)

\* the faults a topology has besides those of its requires lists: whether a
\* and b publish the same port, and whether the enabled_by expression, the
\* x-secret-ref and the x-provider-fields of a are bad
Faults == [port : BOOLEAN, expression : BOOLEAN, secret : BOOLEAN, provider : BOOLEAN]

InitFaults ==
    /\ \E req \in [GraphNames -> ValidatedRequires], fault \in Faults :
        /\ Len(req["a"]) + Len(req["b"]) + Len(req["c"]) <= MaxEdges
        /\ services = [n \in GraphNames |->
            IF n = "a"
            THEN [Service(req[n], FALSE,
                          <<Cond("a", IF fault.expression THEN "nofield" ELSE "engine",
                                 "==", <<" ", "true">>)>>,
                          [f \in {"engine"} |->
                              [FieldDef(PyBool(TRUE)) EXCEPT
                                  !.x_secret_ref =
                                      IF fault.secret THEN <<"secrets", "api", "nope">>
                                      ELSE <<"secrets", "api", "key">>,
                                  !.x_provider_fields =
                                      IF fault.provider THEN << <<"y", <<"y_url">>>> >>
                                      ELSE << <<"x", <<"engine">>>> >>]])
                  EXCEPT !.configuration.properties_order = <<"engine">>,
                         !.infrastructure.published_port = <<8080>>]
            ELSE [Service(req[n], TRUE, <<>>, NoProperties)
                  EXCEPT !.infrastructure.published_port =
                             IF n = "b" /\ fault.port THEN <<8080>> ELSE <<>>]]
    /\ doc_order = <<"a", "b", "c">>
    /\ schema_version = ""
    /\ secrets = ValidatorSecrets
    /\ condition = NoCondition
    /\ pc = "validate"
    /\ result = FALSE
    /\ IdleSort
    /\ IdleValidator
    /\ IdleTracker
    /\ IdleGenerator

SpecFaults == InitFaults /\ [][Validate]_vars

\* the faults, read off the topology
DanglingRequires ==
    \E s \in DOMAIN services :
        Range(services[s].infrastructure.requires) \ DOMAIN services # {}

PortShared ==
    \E s, u \in DOMAIN services :
        /\ s # u
        /\ services[s].infrastructure.published_port # <<>>
        /\ services[s].infrastructure.published_port
              = services[u].infrastructure.published_port

BadExpression ==
    \E s \in DOMAIN services :
        \E k \in DOMAIN services[s].infrastructure.enabled_by :
            ~Resolves(services[s].infrastructure.enabled_by[k])

BadSecretReference ==
    \E s \in DOMAIN services : \E f \in DOMAIN PropertiesOf(s) :
        LET reference == PropertiesOf(s)[f].x_secret_ref IN
        /\ reference # <<>>
        /\ ~(reference[1] = "secrets" /\ ResolvesInSecrets(reference))

ProviderInconsistency ==
    \E s \in DOMAIN services : \E f \in DOMAIN PropertiesOf(s) :
        \E provider \in {"x", "y"} :
            \E required_field \in ProviderFieldNames \ DOMAIN PropertiesOf(s) :
                Listings(s, f, provider, required_field) > 0

\* two cycles of the requires graph that have no service in common
TwoSeparateCycles ==
    \E S1, S2 \in SUBSET DOMAIN services :
        S1 \cap S2 = {} /\ HasCycleWithin(S1) /\ HasCycleWithin(S2)

\* every fault the topology has got at least one error
EachFaultReported ==
    /\ DanglingRequires => ErrorsOfKind("Requires non-existent service") # <<>>
    /\ PortShared => ErrorsOfKind("Port conflict") # <<>>
    /\ HasCycleWithin(DOMAIN services) =>
          ErrorsOfKind("Circular dependency detected") # <<>>
    /\ BadExpression => \E k \in DOMAIN errors : errors[k].kind \in ExpressionErrorKinds
    /\ BadSecretReference => \E k \in DOMAIN errors : errors[k].kind \in SecretErrorKinds
    /\ ProviderInconsistency =>
          ErrorsOfKind("Provider requires non-existent field") # <<>>

\* C18: validation never short-circuits: a topology that has a dangling
\* requires entry, a port conflict, a dependency cycle, a bad enabled_by
\* expression, a bad secret reference and a provider inconsistency gets at
\* least one error for each of them, and two separate dependency cycles each
\* get an error.
C18_NoShortCircuit ==
    pc = "validated" =>
        /\ EachFaultReported
        /\ TwoSeparateCycles => Len(ErrorsOfKind("Circular dependency detected")) >= 2

-----------------------------------------------------------------------------
(* validate on documents that list the same services and fields in different *)
(* orders                                                                     *)

\* position of a service or field name in ascending lexicographic order
NameRank ==
    ("db" :> 1) @@ ("engine" :> 2) @@ ("port" :> 3) @@ ("ui" :> 4)
    @@ ("web_search" :> 5) @@ ("y_url" :> 6)

OrderedFieldNames == {"engine", "y_url"}

InitOrder ==
    /\ \E env_var \in [ServiceNames \X OrderedFieldNames -> {"", "ENV"}],
          order \in [ServiceNames -> Orderings(OrderedFieldNames)],
          req \in [ServiceNames -> {<<>>, <<"ghost">>, <<"ui">>}],
          secret_ref \in [ServiceNames -> {<<"secrets", "api", "key">>, <<"vault">>}],
          enabled_by \in {<<>>, <<Cond("ui", "nofield", "==", <<" ", "true">>)>>},
          provider_fields \in {<<>>, << <<"x", <<"x_key">>>> >>} :
        services = [n \in ServiceNames |->
            [Service(req[n], TRUE, IF n = "db" THEN enabled_by ELSE <<>>,
                     [f \in OrderedFieldNames |->
                         [FieldDef(PyNone) EXCEPT
                             !.x_env_var = env_var[<<n, f>>],
                             !.x_secret_ref =
                                 IF f = "engine" THEN secret_ref[n] ELSE <<>>,
                             !.x_provider_fields =
                                 IF n = "ui" /\ f = "y_url" THEN provider_fields
                                 ELSE <<>>]])
             EXCEPT !.configuration.properties_order = order[n],
                    !.infrastructure.healthcheck = FALSE]]
    /\ doc_order \in Orderings(ServiceNames)
    /\ schema_version = ""
    /\ secrets = ValidatorSecrets
    /\ condition = NoCondition
    /\ pc = "validate"
    /\ result = FALSE
    /\ IdleSort
    /\ IdleValidator
    /\ IdleTracker
    /\ IdleGenerator

SpecOrder == InitOrder /\ [][Validate]_vars

\* the diagnostics of the field pass, in the order they were appended
FieldPassDiagnostics ==
    SelectSeq(warnings,
              LAMBDA w : w.kind \in {"Sensitive field lacks x-secret-ref",
                                     "Exposed field lacks x-env-var definition"})

\* the diagnostics the service pass appends service by service
ServicePassErrors == ErrorsOfKind("Requires non-existent service")
ServicePassWarnings ==
    SelectSeq(warnings, LAMBDA w : w.kind = "Enabled service lacks healthcheck")

\* the place of a topology check in the invariant list, by its messages
TopologyCheckRank(kind) ==
    CASE kind = "Circular dependency detected" -> 1
      [] kind \in ExpressionErrorKinds -> 2
      [] kind \in {"Invalid reference format", "References non-existent service"} -> 3
      [] kind \in SecretErrorKinds -> 4
      [] kind = "Provider requires non-existent field" -> 5
      [] kind \in {"Enables non-existent service", "Affects non-existent service"} -> 6
      [] OTHER -> 0

TopologyPassErrors == SelectSeq(errors, LAMBDA e : TopologyCheckRank(e.kind) > 0)

\* the diagnostics are listed by service name, and by field name within one
\* service, in ascending lexicographic order
ByServiceThenField(diagnostics) ==
    \A i, j \in DOMAIN diagnostics :
        i < j =>
            \/ NameRank[diagnostics[i].service] < NameRank[diagnostics[j].service]
            \/ /\ diagnostics[i].service = diagnostics[j].service
               /\ NameRank[diagnostics[i].field] <= NameRank[diagnostics[j].field]

ByService(diagnostics) ==
    \A i, j \in DOMAIN diagnostics :
        i < j => NameRank[diagnostics[i].service] <= NameRank[diagnostics[j].service]

\* C19: diagnostics come in a fixed order that does not depend on the order
\* of services and fields in the document: those of the field pass by service
\* name then field name, those of the service pass by service name, those of
\* the topology pass in the order of the invariant list.
C19_FixedDiagnosticOrder ==
    pc = "validated" =>
        /\ ByServiceThenField(FieldPassDiagnostics)
        /\ ByService(ServicePassErrors)
        /\ ByService(ServicePassWarnings)
        /\ \A i, j \in DOMAIN TopologyPassErrors :
              i < j => TopologyCheckRank(TopologyPassErrors[i].kind)
                          <= TopologyCheckRank(TopologyPassErrors[j].kind)

\* C29: the validator's cycle check has no false positives: if the requires
\* graph over all services is acyclic, then no circular-dependency error is
\* appended, also when several services require the same non-existent service
\* or share dependencies.
C29_NoFalseCycle ==
    (pc = "validated" /\ ~HasCycleWithin(DOMAIN services)) =>
        ErrorsOfKind("Circular dependency detected") = <<>>

-----------------------------------------------------------------------------
(* validate on x-requires-field references of every shape *)

\* x-requires-field of ui.web_search, split at the dots
References ==
    {<<"db">>}
    \cup {<<first, second>> \o rest :
             first \in {"db", "ghost"},
             second \in {"infrastructure", "configuration", "config", "properties"},
             rest \in {<<>>, <<"container_name">>, <<"hostname">>, <<"port">>,
                       <<"properties", "port">>}}

InitReferences ==
    /\ \E reference \in References, container_name \in {"", "db-app"},
          db_fields \in {{}, {"port"}}, env_var \in {"", "WEB_SEARCH"} :
        services = [n \in ServiceNames |->
            IF n = "ui"
            THEN Service(<<>>, TRUE, <<>>,
                         [f \in FieldNames |->
                             [FieldDef(PyBool(TRUE)) EXCEPT
                                 !.x_requires_field = reference,
                                 !.x_env_var = env_var]])
            ELSE [Service(<<>>, TRUE, <<>>, [f \in db_fields |-> FieldDef(PyInt(80))])
                  EXCEPT !.infrastructure.container_name = container_name]]
    /\ doc_order = <<"ui", "db">>
    /\ schema_version = ""
    /\ secrets = NoSecrets
    /\ condition = NoCondition
    /\ pc = "validate"
    /\ result = FALSE
    /\ IdleSort
    /\ IdleValidator
    /\ IdleTracker
    /\ IdleGenerator

SpecReferences == InitReferences /\ [][Validate]_vars

\* the messages _validate_field_reference can append
ReferenceKinds ==
    {"Invalid reference format", "References non-existent service",
     "Reference may not exist at runtime", "Could not fully validate reference"}

\* the diagnostics in a list about the reference of field f of service s
ReferenceDiagnostics(diagnostics, s, f) ==
    SelectSeq(diagnostics,
              LAMBDA e : e.kind \in ReferenceKinds /\ e.service = s /\ e.field = f)

\* svc.configuration.<field> with the field in svc's configuration properties
ToConfigurationField(reference) ==
    /\ Len(reference) = 3
    /\ reference[2] = "configuration"
    /\ reference[3] \in DOMAIN PropertiesOf(reference[1])

\* svc.infrastructure.<attr> with the attribute present
ToInfrastructureAttribute(reference) ==
    /\ Len(reference) = 3
    /\ reference[2] = "infrastructure"
    /\ DocKind(reference[1], Tail(reference)) # "missing"

\* the path after the service name leads to no element of the service
Unresolved(reference) ==
    /\ DocKind(reference[1], Tail(reference)) = "missing"
    /\ ~ToConfigurationField(reference)

\* C25: for every field carrying x-requires-field: a reference whose first
\* segment is not an existing service produces an error; a reference into an
\* existing service whose remaining path does not resolve to an existing
\* element produces at least one diagnostic (warning or error), whatever its
\* second segment is; and a reference svc.configuration.<field> to a field
\* that exists in svc's configuration properties, or svc.infrastructure.<attr>
\* to an attribute that is present, produces no diagnostic.
C25_FieldReferences ==
    pc = "validated" =>
        \A s \in DOMAIN services : \A f \in DOMAIN PropertiesOf(s) :
            LET reference == PropertiesOf(s)[f].x_requires_field IN
            reference # <<>> =>
                IF reference[1] \notin DOMAIN services
                THEN ReferenceDiagnostics(errors, s, f) # <<>>
                ELSE /\ (Len(reference) >= 2 /\ Unresolved(reference)) =>
                            ReferenceDiagnostics(errors \o warnings, s, f) # <<>>
                     /\ (ToConfigurationField(reference)
                             \/ ToInfrastructureAttribute(reference)) =>
                            ReferenceDiagnostics(errors \o warnings, s, f) = <<>>

-----------------------------------------------------------------------------
(* validate called repeatedly on one validator *)

SpecRevalidate ==
    (InitPlacement \/ InitReferences) /\ [][Validate \/ ValidateAgain]_vars

\* C28: running validate() again on the same validator and the same topology
\* yields the same result: every call after the first leaves the errors and
\* warnings lists element for element as the call before left them (nothing
\* accumulates) and returns the same boolean.
C28_RevalidateSameResult ==
    [][(pc = "validated" /\ calls' = calls + 1) =>
           /\ errors' = errors
           /\ warnings' = warnings
           /\ result' = result]_vars

\* validate() has run three times on a topology with errors and warnings
C28_Witness ==
    /\ pc = "validated"
    /\ calls = MaxCalls
    /\ errors # <<>>
    /\ warnings # <<>>
    /\ result = (errors = <<>>)

-----------------------------------------------------------------------------
(* StateTracker.compute_state *)

\* mutant: an unset field reported as unset whether or not it is required
FieldStateIgnoringRequired(field_name, field_def, is_required) ==
    LET default_handling == IF field_def.x_default_handling = "" THEN "preloaded"
                            ELSE field_def.x_default_handling
        state == IF default_handling = "user-configured" THEN "configured"
                 ELSE IF default_handling = "unset" THEN "unset"
                 ELSE "default"
    IN  [state |-> state,
         value |-> field_def.default,
         required |-> is_required,
         type |-> IF field_def.type = "" THEN "unknown" ELSE field_def.type,
         sensitive |-> field_def.x_sensitive,
         visibility |-> IF field_def.x_visibility = "" THEN "exposed"
                        ELSE field_def.x_visibility,
         template_path |-> field_def.x_template_path,
         secret_ref |-> field_def.x_secret_ref]

\* lines 90-121; template_path "" and secret_ref <<>> stand for an absent key
_compute_field_state(field_name, field_def, is_required) ==
    LET default_handling == IF field_def.x_default_handling = "" THEN "preloaded"
                            ELSE field_def.x_default_handling
        state == IF default_handling = "user-configured" THEN "configured"
                 ELSE IF default_handling = "unset"
                 THEN (IF is_required THEN "unset" ELSE "optional_unset")
                 ELSE "default"
    IN  [state |-> state,
         value |-> field_def.default,
         required |-> is_required,
         type |-> IF field_def.type = "" THEN "unknown" ELSE field_def.type,
         sensitive |-> field_def.x_sensitive,
         visibility |-> IF field_def.x_visibility = "" THEN "exposed"
                        ELSE field_def.x_visibility,
         template_path |-> field_def.x_template_path,
         secret_ref |-> field_def.x_secret_ref]

\* lines 73-86: the loop over properties.items()
RECURSIVE FieldStatesLoop(_, _, _, _)
FieldStatesLoop(order, properties, required, service_state) ==
    IF order = <<>> THEN service_state
    ELSE LET field_name == Head(order)
             field_state == _compute_field_state(field_name, properties[field_name],
                                                 field_name \in required)
             summary == service_state.summary
         IN  FieldStatesLoop(Tail(order), properties, required,
                 [fields |-> service_state.fields @@ (field_name :> field_state),
                  fields_order |-> Append(service_state.fields_order, field_name),
                  summary |->
                      IF field_state.state = "default"
                      THEN [summary EXCEPT !.using_defaults = @ + 1]
                      ELSE IF field_state.state = "configured"
                      THEN [summary EXCEPT !.user_configured = @ + 1]
                      ELSE IF field_state.state = "unset"
                      THEN [summary EXCEPT !.unset_required = @ + 1]
                      ELSE summary])

\* mutant: every unset field counted as unset_required, required or not
ServiceStateCountingAllUnset(service_name, service) ==
    LET config == service.configuration
        base == FieldStatesLoop(config.properties_order, config.properties,
                    Range(config.required),
                    [fields |-> <<>>,
                     fields_order |-> <<>>,
                     summary |-> [total |-> Cardinality(DOMAIN config.properties),
                                  using_defaults |-> 0,
                                  user_configured |-> 0,
                                  unset_required |-> 0]])
    IN  [base EXCEPT !.summary.unset_required =
            Cardinality({f \in DOMAIN base.fields :
                            base.fields[f].state \in {"unset", "optional_unset"}})]

\* lines 58-88
_compute_service_state(service_name, service) ==
    LET config == service.configuration
        properties == config.properties
        required == Range(config.required)
    IN  FieldStatesLoop(config.properties_order, properties, required,
            [fields |-> <<>>,
             fields_order |-> <<>>,
             summary |-> [total |-> Cardinality(DOMAIN properties),
                          using_defaults |-> 0,
                          user_configured |-> 0,
                          unset_required |-> 0]])

\* lines 51-54: the loop over self.services.items()
RECURSIVE ServiceStatesLoop(_, _)
ServiceStatesLoop(order, state) ==
    IF order = <<>> THEN state
    ELSE LET service_name == Head(order)
             service_state == _compute_service_state(service_name, services[service_name])
         IN  ServiceStatesLoop(Tail(order),
                 IF service_state.fields_order # <<>>
                 THEN [state EXCEPT
                          !.services = @ @@ (service_name :> service_state),
                          !.services_order = Append(@, service_name)]
                 ELSE state)

\* lines 38-56; timestamp is the reading of the clock
compute_state(timestamp) ==
    ServiceStatesLoop(doc_order,
        [timestamp |-> timestamp,
         schema_version |-> IF schema_version = "" THEN "unknown" ELSE schema_version,
         services |-> <<>>,
         services_order |-> <<>>])

\* the readings of the clock
Timestamps == {1, 2}

InitState ==
    \* x-default-handling: "" is the absent key, bogus a value the code does
    \* not name; required is config.get('required', []) of ui and order the
    \* properties of ui in document order
    /\ \E handling \in {"", "preloaded", "user-configured", "unset", "bogus"},
          other_handling \in {"", "unset"},
          default \in {PyNone, PyBool(FALSE), PyStr(<<"on">>)},
          sensitive \in BOOLEAN,
          required \in {<<>>, <<"web_search">>, <<"engine">>,
                        <<"engine", "web_search">>},
          order \in {<<"web_search">>, <<"web_search", "engine">>,
                     <<"engine", "web_search">>},
          tracked \in BOOLEAN :
        services = [n \in ServiceNames |->
            IF n = "ui"
            THEN [Service(<<>>, TRUE, <<>>,
                          [f \in Range(order) |->
                              IF f = "web_search"
                              THEN [FieldDef(default) EXCEPT
                                       !.x_default_handling = handling,
                                       !.x_sensitive = sensitive,
                                       !.x_secret_ref =
                                           IF sensitive THEN <<"secrets", "api", "key">>
                                           ELSE <<>>,
                                       !.type = IF sensitive THEN "string" ELSE ""]
                              ELSE [FieldDef(PyInt(1)) EXCEPT
                                       !.x_default_handling = other_handling,
                                       !.x_visibility = "hidden"]])
                  EXCEPT !.configuration.properties_order = order,
                         !.configuration.required = required]
            ELSE IF tracked
            THEN [Service(<<>>, TRUE, <<>>,
                          [f \in FieldNames |->
                              [FieldDef(PyNone) EXCEPT !.x_default_handling = "unset"]])
                  EXCEPT !.configuration.required = <<"web_search">>]
            ELSE Service(<<>>, TRUE, <<>>, NoProperties)]
    /\ doc_order \in Orderings(ServiceNames)
    /\ schema_version \in {"", "1.0"}
    /\ secrets = ValidatorSecrets
    /\ condition = NoCondition
    /\ pc = "compute"
    /\ result = FALSE
    /\ IdleSort
    /\ IdleValidator
    /\ IdleTracker
    /\ IdleGenerator

ComputeState ==
    /\ pc = "compute"
    /\ \E timestamp \in Timestamps : result' = compute_state(timestamp)
    /\ pc' = "computed"
    /\ UNCHANGED <<topology, condition, enabled_services, iter_order,
                   graph, in_degree, queue, sorted_services,
                   errors, warnings, calls, old_state, new_state, files>>

SpecState == InitState /\ [][ComputeState]_vars

\* the state the claim gives for a handling and a membership in required
ClaimedState(handling, is_required) ==
    CASE handling = "user-configured" -> "configured"
      [] handling = "unset" /\ is_required -> "unset"
      [] handling = "unset" /\ ~is_required -> "optional_unset"
      [] OTHER -> "default"

\* C20: the snapshot state of every field is given by x-default-handling and
\* membership in the service's required list alone: configured for
\* user-configured, unset for unset and required, optional_unset for unset and
\* not required, default otherwise; the recorded value is the field's default
\* (null when absent).
C20_FieldState ==
    pc = "computed" =>
        \A s \in DOMAIN services : \A f \in DOMAIN PropertiesOf(s) :
            /\ s \in DOMAIN result.services
            /\ f \in DOMAIN result.services[s].fields
            /\ result.services[s].fields[f].state =
                  ClaimedState(PropertiesOf(s)[f].x_default_handling,
                               \E k \in DOMAIN services[s].configuration.required :
                                   services[s].configuration.required[k] = f)
            /\ result.services[s].fields[f].value = PropertiesOf(s)[f].default

\* two fields of ui are unset; only engine is required, so web_search, a
\* sensitive field without default, is optional_unset with value null
C20_Witness ==
    /\ pc = "computed"
    /\ DOMAIN PropertiesOf("ui") = {"web_search", "engine"}
    /\ services["ui"].configuration.required = <<"engine">>
    /\ PropertiesOf("ui")["web_search"].x_default_handling = "unset"
    /\ PropertiesOf("ui")["web_search"].x_sensitive
    /\ result.services["ui"].fields["web_search"].state = "optional_unset"
    /\ result.services["ui"].fields["web_search"].value = PyNone
    /\ result.services["ui"].fields["engine"].state = "unset"
    /\ result.services["ui"].fields["engine"].value = PyInt(1)

\* the fields of a service entry that are in state optional_unset
OptionalUnset(entry) ==
    {f \in DOMAIN entry.fields : entry.fields[f].state = "optional_unset"}

\* C30: in every service entry of a snapshot, summary.total equals the number
\* of entries in fields, and using_defaults + user_configured + unset_required
\* equals total minus the number of fields in state optional_unset; a service
\* with zero fields never appears in the snapshot.
C30_SummaryCounters ==
    pc = "computed" =>
        /\ \A n \in DOMAIN result.services :
              LET entry == result.services[n]
                  summary == entry.summary
              IN  /\ summary.total = Cardinality(DOMAIN entry.fields)
                  /\ summary.using_defaults + summary.user_configured
                         + summary.unset_required
                       = summary.total - Cardinality(OptionalUnset(entry))
                  /\ DOMAIN entry.fields # {}
        /\ \A n \in DOMAIN services :
              DOMAIN PropertiesOf(n) = {} => n \notin DOMAIN result.services

\* ui has one field unset and not required and one counted, and db, which has
\* no field, is not in the snapshot
C30_Witness ==
    /\ pc = "computed"
    /\ "db" \in DOMAIN services
    /\ DOMAIN PropertiesOf("db") = {}
    /\ "db" \notin DOMAIN result.services
    /\ "ui" \in DOMAIN result.services
    /\ result.services["ui"].summary.total = 2
    /\ Cardinality(OptionalUnset(result.services["ui"])) = 1
    /\ result.services["ui"].summary.unset_required = 1

-----------------------------------------------------------------------------
(* StateTracker.compare_states *)

\* sorted(S) of a set of service or field names
RECURSIVE Sorted(_)
Sorted(S) ==
    IF S = {} THEN <<>>
    ELSE LET least == CHOOSE x \in S : \A y \in S : NameRank[x] <= NameRank[y]
         IN  <<least>> \o Sorted(S \ {least})

\* mutant: the old value and state reported as the new ones too
FieldChangesOldTwice(old_field, new_field) ==
    [value |-> IF ~PyEq(old_field.value, new_field.value)
               THEN <<[old |-> old_field.value, new |-> old_field.value]>>
               ELSE <<>>,
     state |-> IF old_field.state # new_field.state
               THEN <<[old |-> old_field.state, new |-> old_field.state]>>
               ELSE <<>>]

\* lines 185-200: field_changes; <<>> stands for a key the dict does not have
FieldChanges(old_field, new_field) ==
    [value |-> IF ~PyEq(old_field.value, new_field.value)
               THEN <<[old |-> old_field.value, new |-> new_field.value]>>
               ELSE <<>>,
     state |-> IF old_field.state # new_field.state
               THEN <<[old |-> old_field.state, new |-> new_field.state]>>
               ELSE <<>>]

\* an empty field_changes dict
NoFieldChanges == [value |-> <<>>, state |-> <<>>]

\* lines 181-203: the loop over sorted(old_field_names & new_field_names)
RECURSIVE FieldsChangedLoop(_, _, _, _)
FieldsChangedLoop(order, old_fields, new_fields, changes) ==
    IF order = <<>> THEN changes
    ELSE LET field_name == Head(order)
             field_changes == FieldChanges(old_fields[field_name],
                                           new_fields[field_name])
         IN  FieldsChangedLoop(Tail(order), old_fields, new_fields,
                 IF field_changes # NoFieldChanges
                 THEN [changes EXCEPT
                          !.fields_changed = @ @@ (field_name :> field_changes),
                          !.fields_changed_order = Append(@, field_name)]
                 ELSE changes)

\* mutant: the changes are returned also when all three collections are empty
CompareServiceStatesNeverNone(old_service, new_service) ==
    LET old_fields == old_service.fields
        new_fields == new_service.fields
    IN  <<FieldsChangedLoop(
              Sorted(DOMAIN old_fields \cap DOMAIN new_fields),
              old_fields, new_fields,
              [fields_added |-> Sorted(DOMAIN new_fields \ DOMAIN old_fields),
               fields_removed |-> Sorted(DOMAIN old_fields \ DOMAIN new_fields),
               fields_changed |-> <<>>,
               fields_changed_order |-> <<>>])>>

\* lines 163-213; the result is <<>> for None and <<changes>> otherwise
_compare_service_states(old_service, new_service) ==
    LET old_fields == old_service.fields
        new_fields == new_service.fields
        old_field_names == DOMAIN old_fields
        new_field_names == DOMAIN new_fields
        changes == FieldsChangedLoop(
                       Sorted(old_field_names \cap new_field_names),
                       old_fields, new_fields,
                       [fields_added |-> Sorted(new_field_names \ old_field_names),
                        fields_removed |-> Sorted(old_field_names \ new_field_names),
                        fields_changed |-> <<>>,
                        fields_changed_order |-> <<>>])
    IN  IF /\ changes.fields_added = <<>>
           /\ changes.fields_removed = <<>>
           /\ changes.fields_changed_order = <<>>
        THEN <<>>
        ELSE <<changes>>

\* lines 152-159: the loop over sorted(old_services & new_services)
RECURSIVE ServicesModifiedLoop(_, _, _, _)
ServicesModifiedLoop(order, old, new, diff) ==
    IF order = <<>> THEN diff
    ELSE LET service_name == Head(order)
             service_diff == _compare_service_states(old.services[service_name],
                                                     new.services[service_name])
         IN  ServicesModifiedLoop(Tail(order), old, new,
                 IF service_diff # <<>>
                 THEN [diff EXCEPT
                          !.changes.services_modified =
                              @ @@ (service_name :> service_diff[1]),
                          !.changes.services_modified_order = Append(@, service_name)]
                 ELSE diff)

\* lines 123-161; timestamp is the reading of the clock
compare_states(old, new, timestamp) ==
    LET old_services == DOMAIN old.services
        new_services == DOMAIN new.services
    IN  ServicesModifiedLoop(
            Sorted(old_services \cap new_services), old, new,
            [timestamp |-> timestamp,
             old_version |-> old.schema_version,
             new_version |-> new.schema_version,
             changes |-> [services_added |-> Sorted(new_services \ old_services),
                          services_removed |-> Sorted(old_services \ new_services),
                          services_modified |-> <<>>,
                          services_modified_order |-> <<>>]])

\* the services map of a tracked topology
TrackedServices(web_search, engine, db) ==
    LET names == (IF web_search # <<>> THEN {"web_search"} ELSE {})
                 \cup (IF engine # <<>> THEN {"engine"} ELSE {})
        ui == [Service(<<>>, TRUE, <<>>,
                       [f \in names |->
                           IF f = "web_search"
                           THEN [FieldDef(web_search[1]) EXCEPT
                                    !.x_default_handling = web_search[2]]
                           ELSE [FieldDef(PyStr(<<"on">>)) EXCEPT
                                    !.x_default_handling = engine[1]]])
               EXCEPT !.configuration.properties_order = Sorted(names)]
        other == IF db = "port"
                 THEN [Service(<<>>, TRUE, <<>>, [f \in {"port"} |-> FieldDef(PyInt(80))])
                       EXCEPT !.configuration.properties_order = <<"port">>]
                 ELSE Service(<<>>, TRUE, <<>>, NoProperties)
    IN  [n \in (IF db = "absent" THEN {"ui"} ELSE {"ui", "db"}) |->
            IF n = "ui" THEN ui ELSE other]

\* the tracked topologies.  web_search of ui: not a property, or one with a
\* default and an x-default-handling ("" when the key is absent); engine of
\* ui: not a property, or one with an x-default-handling; db: not in the
\* topology, without properties, or with one property
TrackedTopologies ==
    {[services |-> TrackedServices(web_search, engine, db),
      doc_order |-> IF db = "absent" THEN <<"ui">> ELSE <<"ui", "db">>] :
        web_search \in {<<>>} \cup
            ({PyBool(TRUE), PyInt(1), PyInt(80),
              PyList(<<PyInt(1), PyInt(80)>>), PyList(<<PyInt(80), PyInt(1)>>),
              PyDict([port |-> PyInt(80)])} \X {"", "user-configured"}),
        engine \in {<<>>, <<"">>, <<"unset">>},
        db \in {"absent", "empty", "port"}}

InitDiff ==
    /\ \E tracked \in TrackedTopologies :
        /\ services = tracked.services
        /\ doc_order = tracked.doc_order
    /\ schema_version \in {"", "1.0"}
    /\ secrets = NoSecrets
    /\ condition = NoCondition
    /\ pc = "compute_old"
    /\ result = FALSE
    /\ IdleSort
    /\ IdleValidator
    /\ IdleTracker
    /\ IdleGenerator

\* main, command compute: the snapshot of the topology is taken and kept
SnapshotOld ==
    /\ pc = "compute_old"
    /\ \E timestamp \in Timestamps : old_state' = compute_state(timestamp)
    /\ pc' = "edit"
    /\ UNCHANGED <<topology, condition, result, enabled_services, iter_order,
                   graph, in_degree, queue, sorted_services,
                   errors, warnings, calls, new_state, files>>

\* the topology document is replaced by another one before the second run
EditTopology ==
    /\ pc = "edit"
    /\ \E tracked \in TrackedTopologies :
        /\ services' = tracked.services
        /\ doc_order' = tracked.doc_order
    /\ schema_version' \in {"", "1.0"}
    /\ pc' = "compute_new"
    /\ UNCHANGED <<secrets, condition, result, enabled_services, iter_order,
                   graph, in_degree, queue, sorted_services,
                   errors, warnings, calls, old_state, new_state, files>>

\* main, command compute, on the new topology
SnapshotNew ==
    /\ pc = "compute_new"
    /\ \E timestamp \in Timestamps : new_state' = compute_state(timestamp)
    /\ pc' = "compare"
    /\ UNCHANGED <<topology, condition, result, enabled_services, iter_order,
                   graph, in_degree, queue, sorted_services,
                   errors, warnings, calls, old_state, files>>

\* main, command diff
CompareStates ==
    /\ pc = "compare"
    /\ \E timestamp \in Timestamps :
          result' = compare_states(old_state, new_state, timestamp)
    /\ pc' = "compared"
    /\ UNCHANGED <<topology, condition, enabled_services, iter_order,
                   graph, in_degree, queue, sorted_services,
                   errors, warnings, calls, old_state, new_state, files>>

NextDiff == SnapshotOld \/ EditTopology \/ SnapshotNew \/ CompareStates

SpecDiff == InitDiff /\ [][NextDiff]_vars

\* C21: for every snapshot s, compare_states(s, s) is the empty change record:
\* services_added and services_removed are empty lists and services_modified
\* is an empty map.
C21_DiffOfSelfIsEmpty ==
    (pc = "compared" /\ old_state = new_state) =>
        /\ result.changes.services_added = <<>>
        /\ result.changes.services_removed = <<>>
        /\ DOMAIN result.changes.services_modified = {}

\* a snapshot with two services and a list-valued field was compared with
\* itself
C21_Witness ==
    /\ pc = "compared"
    /\ old_state = new_state
    /\ DOMAIN old_state.services = {"ui", "db"}
    /\ DOMAIN old_state.services["ui"].fields = {"web_search", "engine"}
    /\ old_state.services["ui"].fields["web_search"].value.t = "list"
    /\ DOMAIN result.changes.services_modified = {}

\* the diff taken the other way round
Backward == compare_states(new_state, old_state, result.timestamp)

\* a pair {old, new} with its two sides exchanged
SwapPair(pair) ==
    IF pair = <<>> THEN <<>> ELSE <<[old |-> pair[1].new, new |-> pair[1].old]>>

\* a fields_changed entry with old and new exchanged
Swapped(entry) == [value |-> SwapPair(entry.value), state |-> SwapPair(entry.state)]

\* the two service diffs are mirror images
MirrorServices(forward, backward) ==
    /\ forward.fields_added = backward.fields_removed
    /\ forward.fields_removed = backward.fields_added
    /\ DOMAIN forward.fields_changed = DOMAIN backward.fields_changed
    /\ \A f \in DOMAIN forward.fields_changed :
          backward.fields_changed[f] = Swapped(forward.fields_changed[f])

\* C22: compare_states(a, b) and compare_states(b, a) are mirror images:
\* services_added of one equals services_removed of the other, both have the
\* same key set in services_modified, and for each such service fields_added
\* of one equals fields_removed of the other and every fields_changed entry
\* has old and new swapped.
C22_MirrorImages ==
    pc = "compared" =>
        /\ result.changes.services_added = Backward.changes.services_removed
        /\ result.changes.services_removed = Backward.changes.services_added
        /\ DOMAIN result.changes.services_modified
               = DOMAIN Backward.changes.services_modified
        /\ \A n \in DOMAIN result.changes.services_modified :
              MirrorServices(result.changes.services_modified[n],
                             Backward.changes.services_modified[n])

\* db was added, and in ui one field was removed and another changed in value
\* and in state
C22_Witness ==
    /\ pc = "compared"
    /\ result.changes.services_added = <<"db">>
    /\ "ui" \in DOMAIN result.changes.services_modified
    /\ result.changes.services_modified["ui"].fields_removed # <<>>
    /\ \E f \in DOMAIN result.changes.services_modified["ui"].fields_changed :
          LET entry == result.changes.services_modified["ui"].fields_changed[f]
          IN  entry.value # <<>> \/ entry.state # <<>>

\* the fields of service n in a snapshot
SnapshotFields(state, n) == state.services[n].fields

\* every service of snapshot B is in snapshot A with all its fields, value and
\* state included
SupersetOf(A, B) ==
    \A n \in DOMAIN B.services :
        /\ n \in DOMAIN A.services
        /\ \A f \in DOMAIN SnapshotFields(B, n) :
              /\ f \in DOMAIN SnapshotFields(A, n)
              /\ SnapshotFields(A, n)[f] = SnapshotFields(B, n)[f]

\* the fields service n has in A and not in B
ExtraFields(A, B, n) == DOMAIN SnapshotFields(A, n) \ DOMAIN SnapshotFields(B, n)

\* C23: when the first topology has a superset of the fields of the second
\* with identical values on the common fields, the diff of their snapshots
\* (first as A, second as B) has, for each common service, fields_added equal
\* to exactly the set of extra fields and fields_changed empty.
C23_SupersetGivesFieldsAdded ==
    (pc = "compared" /\ SupersetOf(old_state, new_state)) =>
        \A n \in DOMAIN old_state.services \cap DOMAIN new_state.services :
            IF n \in DOMAIN result.changes.services_modified
            THEN /\ result.changes.services_modified[n].fields_added
                        = Sorted(ExtraFields(old_state, new_state, n))
                 /\ DOMAIN result.changes.services_modified[n].fields_changed = {}
            ELSE ExtraFields(old_state, new_state, n) = {}

\* a field of service n was added, removed, or changed in value or state
\* between snapshots A and B
FieldsDiffer(A, B, n) ==
    \/ DOMAIN SnapshotFields(A, n) # DOMAIN SnapshotFields(B, n)
    \/ \E f \in DOMAIN SnapshotFields(A, n) \cap DOMAIN SnapshotFields(B, n) :
          \/ SnapshotFields(A, n)[f].value # SnapshotFields(B, n)[f].value
          \/ SnapshotFields(A, n)[f].state # SnapshotFields(B, n)[f].state

\* the members of a list
Members(list) == {list[i] : i \in DOMAIN list}

\* C24: compare_states(A, B) partitions the services exactly: services_added
\* is the sorted list of services in B and not in A, services_removed the
\* sorted list of those in A and not in B, and services_modified contains a
\* service if and only if it is in both snapshots and at least one of its
\* fields was added, removed, or changed in value or state; the three
\* collections are pairwise disjoint.
C24_ServicesPartition ==
    pc = "compared" =>
        LET inA == DOMAIN old_state.services
            inB == DOMAIN new_state.services
            changes == result.changes
            modified == DOMAIN changes.services_modified
        IN  /\ changes.services_added = Sorted(inB \ inA)
            /\ changes.services_removed = Sorted(inA \ inB)
            /\ \A n \in inA \cup inB \cup modified :
                  n \in modified <=>
                      (n \in inA \cap inB /\ FieldsDiffer(old_state, new_state, n))
            /\ Members(changes.services_added) \cap Members(changes.services_removed) = {}
            /\ Members(changes.services_added) \cap modified = {}
            /\ Members(changes.services_removed) \cap modified = {}

\* the entry fields_changed should hold for a pair of field states: the key
\* value when the values are unequal, the key state when the states differ
ClaimedEntry(old_field, new_field) ==
    [value |-> IF old_field.value # new_field.value
               THEN <<[old |-> old_field.value, new |-> new_field.value]>>
               ELSE <<>>,
     state |-> IF old_field.state # new_field.state
               THEN <<[old |-> old_field.state, new |-> new_field.state]>>
               ELSE <<>>]

\* C27: in every diff, each entry of fields_changed is for a field present in
\* both snapshots, is non-empty, contains the key value with {old: value in A,
\* new: value in B} exactly when the two values are structurally unequal, and
\* contains the key state with {old, new} exactly when the two states differ;
\* a field equal in both value and state never appears.
C27_FieldsChangedEntries ==
    pc = "compared" =>
        \A n \in DOMAIN result.changes.services_modified :
            \A f \in DOMAIN result.changes.services_modified[n].fields_changed :
                LET entry == result.changes.services_modified[n].fields_changed[f]
                IN  /\ f \in DOMAIN SnapshotFields(old_state, n)
                    /\ f \in DOMAIN SnapshotFields(new_state, n)
                    /\ entry # NoFieldChanges
                    /\ entry = ClaimedEntry(SnapshotFields(old_state, n)[f],
                                            SnapshotFields(new_state, n)[f])

-----------------------------------------------------------------------------
(* QuadletGenerator.generate_all *)

\* lines 193-217; the network has its default name.  A file of the output
\* directory is the kind of unit and its name.
generate_network(written) == written \cup {[unit |-> "network", name |-> "llm"]}

\* lines 219-337: the container file of a service; infra['container_name']
\* raises KeyError when the key is absent, before the file is opened
generate_service(service_name, written) ==
    IF services[service_name].infrastructure.container_name = ""
    THEN [files |-> written, raised |-> TRUE]
    ELSE [files |-> written \cup {[unit |-> "container", name |-> service_name]},
          raised |-> FALSE]

\* lines 185-186: the loop over startup_order
RECURSIVE GenerateServicesLoop(_, _)
GenerateServicesLoop(startup_order, written) ==
    IF startup_order = <<>> THEN [files |-> written, raised |-> FALSE]
    ELSE LET generated == generate_service(Head(startup_order), written) IN
         IF generated.raised THEN generated
         ELSE GenerateServicesLoop(Tail(startup_order), generated.files)

\* infrastructure.requires of a, b and c in the generated topologies
GeneratedRequires ==
    {[a |-> ra, b |-> rb, c |-> rc] :
        ra \in {<<>>, <<"b">>, <<"ghost">>, <<"b", "ghost">>},
        rb \in {<<>>, <<"c">>, <<"a">>},
        rc \in {<<>>, <<"a">>, <<"b">>, <<"ghost">>}}

InitGenerate ==
    /\ \E req \in GeneratedRequires, en \in [GraphNames -> BOOLEAN],
          named \in BOOLEAN :
        services = [n \in GraphNames |->
            [Service(req[n], en[n], <<>>, NoProperties)
             EXCEPT !.infrastructure.container_name =
                        IF n = "c" /\ ~named THEN "" ELSE n]]
    /\ doc_order = <<"a", "b", "c">>
    /\ schema_version = ""
    /\ secrets = NoSecrets
    /\ condition = NoCondition
    /\ pc \in {"generate", "enable", "compute"}
    /\ result = FALSE
    /\ IdleSort
    /\ IdleValidator
    /\ IdleTracker
    /\ IdleGenerator

\* lines 169-176: the enabled set is computed and handed to topological_sort,
\* which iterates it in the order the set gives
GenerateAll ==
    /\ pc = "generate"
    /\ enabled_services' = get_enabled_services
    /\ iter_order' \in Orderings(get_enabled_services)
    /\ pc' = "build"
    /\ UNCHANGED <<topology, condition, result, graph, in_degree, queue,
                   sorted_services, errors, warnings, calls,
                   old_state, new_state, files>>

\* mutant: the network unit written before the error is reported
ReportCycleAfterNetwork ==
    /\ pc = "raised"
    /\ pc' = "aborted"
    /\ files' = generate_network(files)
    /\ UNCHANGED <<topology, condition, result, enabled_services, iter_order,
                   graph, in_degree, queue, sorted_services,
                   errors, warnings, calls, old_state, new_state>>

\* lines 177-179: the ValueError is caught, printed, and generate_all returns
ReportCycle ==
    /\ pc = "raised"
    /\ pc' = "aborted"
    /\ UNCHANGED <<topology, condition, result, enabled_services, iter_order,
                   graph, in_degree, queue, sorted_services,
                   errors, warnings, calls, old_state, new_state, files>>

\* lines 181-188: the network unit, then one container unit per service of
\* startup_order; a KeyError of generate_service is not caught
WriteUnits ==
    /\ pc = "returned"
    /\ LET generated == GenerateServicesLoop(result, generate_network(files)) IN
           /\ files' = generated.files
           /\ pc' = IF generated.raised THEN "crashed" ELSE "generated"
    /\ UNCHANGED <<topology, condition, result, enabled_services, iter_order,
                   graph, in_degree, queue, sorted_services,
                   errors, warnings, calls, old_state, new_state>>

NextGenerate ==
    \/ GenerateAll \/ NextSort \/ ReportCycle \/ WriteUnits
    \/ GetEnabledServices \/ ComputeState

\* every call made is run to its end
SpecGenerateLive ==
    InitGenerate /\ [][NextGenerate]_vars /\ WF_vars(NextGenerate)

\* the enabled services form a dependency cycle
EnabledCycle == HasCycleWithin(get_enabled_services)

\* an enabled service requires a service that does not exist
EnabledDangling ==
    \E s \in get_enabled_services :
        ~(Range(services[s].infrastructure.requires) \subseteq DOMAIN services)

\* get_enabled_services or compute_state has returned, or topological_sort
\* has returned to generate_all or its ValueError was caught there
Settled == pc \in {"enabled", "computed", "returned", "aborted", "generated", "crashed"}

\* generate_all is over
GenerateOver == pc \in {"aborted", "generated", "crashed"}

\* C26: on a topology whose enabled services form a dependency cycle or
\* require non-existent services, get_enabled_services, topological_sort as
\* called from generate_all, and compute_state all finish without an uncaught
\* exception; on a cycle generate_all reports the error and writes neither the
\* network unit nor any container unit.
C26_TotalOnInvalidModel ==
    /\ (EnabledCycle \/ EnabledDangling) ~> Settled
    /\ []((EnabledCycle /\ GenerateOver) =>
              /\ pc = "aborted"
              /\ result = "Circular dependency detected"
              /\ files = {})

\* generate_all gave up on a cycle of a and b, with c, which requires a
\* service that does not exist, enabled as well
C26_Witness ==
    /\ pc = "aborted"
    /\ get_enabled_services = GraphNames
    /\ HasCycleWithin({"a", "b"})
    /\ "ghost" \in Range(services["c"].infrastructure.requires)
    /\ files = {}

-----------------------------------------------------------------------------
(* All operations together *)

Init ==
    \/ InitCond \/ InitEnabled \/ InitSort \/ InitValidate
    \/ InitPlacement \/ InitRequires \/ InitExpressions \/ InitSecretRefs
    \/ InitProviders \/ InitFaults \/ InitOrder \/ InitState \/ InitDiff
    \/ InitReferences \/ InitGenerate

Next ==
    \/ EvaluateCondition \/ GetEnabledServices \/ NextSort \/ Validate
    \/ ComputeState \/ NextDiff \/ ValidateAgain
    \/ GenerateAll \/ ReportCycle \/ WriteUnits

Spec == Init /\ [][Next]_vars

====
